---- MODULE Spec2Model ----
(***************************************************************************)
(* A model of rqs/rq1/mining_issues_script.py: keyword matching with       *)
(* sentence-level proximity gating, the two-phase issue scan, the          *)
(* per-repository JSON-lines cache, the GitHub request retry loop, the     *)
(* paginated fetch and the per-repository task process_repo.               *)
(*                                                                         *)
(* Texts are sequences of one-character strings.  The keyword tables are   *)
(* the short keywords of the CONCEPTS table; the matcher is the regular    *)
(* expression of compile_keyword_regexes evaluated character by character. *)
(***************************************************************************)
EXTENDS Integers, Sequences, FiniteSets, TLC

VARIABLES
    scanDetail,       \* scan: the issue detail given to the scan (title, body)
    scanComments,     \* scan: its preloaded_comments
    scanEnriched      \* scan: the value returned, or NotScanned

scanVars == <<scanDetail, scanComments, scanEnriched>>

VARIABLES
    rtRecords,        \* round trip: the list given to save_repo_cache
    rtFile,           \* round trip: the cache file
    rtSaved,          \* round trip: "no", "ok" (written), "io_error", or the
                      \* damage done to the written file (Damages)
    rtLoaded          \* round trip: the value load_repo_cache returned, or NotLoaded

rtVars == <<rtRecords, rtFile, rtSaved, rtLoaded>>

VARIABLES
    upstream,         \* the repository's issue listing on the tracker
    cacheFile,        \* the repository's cache file (issues.jsonl)
    pc,               \* process_repo: "idle", "fetch", "scan" or "done"
    cacheAtStart,     \* the cache file as the current run found it
    cached,           \* what load_repo_cache returned to the current run
    records,          \* the records the current run scans
    out,              \* the rows of the current run
    saved,            \* save_repo_cache in this run: "no", "ok", "io_error"
    failure,          \* what aborted the run: "none", "transport", "network",
                      \* "save"
    prev,             \* the run before: how it ended
    faultsLeft        \* the tracker: the failures it will still produce

taskVars == <<upstream, cacheFile, pc, cacheAtStart, cached, records, out, saved,
              failure, prev, faultsLeft>>

VARIABLES
    request_counter,          \* the per-task counter of process_repo
    GLOBAL_REQUEST_COUNTER,   \* the process-wide counter
    reqUrl,           \* paginated_get: "issues" or "comments"
    issuesPage,       \* paginated_get over the issues: its page
    pending,          \* the items of the current issues page not yet consumed
    curDetail,        \* the issue whose comments are being fetched
    commentsPage,     \* paginated_get over the comments: its page
    comments_json,    \* the comment bodies fetched so far for curDetail
    fetched_records,  \* process_repo: the records fetched so far
    pageLog           \* the pages paginated_get has received in this run, in
                      \* order: the listing, the issue of a comment listing,
                      \* the page number and the number of its items

fetchVars == <<request_counter, GLOBAL_REQUEST_COUNTER, reqUrl, issuesPage, pending,
               curDetail, commentsPage, comments_json, fetched_records, pageLog>>

VARIABLES
    reqPc,            \* github_request: "none", "attempt", "returned", "raised",
                      \* "network_error"
    reqI,             \* loop iterations that ended without returning
    nFail,            \* of these, the ones that slept the backoff
    backoff,          \* the local variable backoff
    lastStatus,       \* the status code of the last response, 0 before any
    sleeps,           \* the backoff delays slept by this call, in order
    errorStatus       \* the status code in the RuntimeError of line 429, or 0

reqVars == <<reqPc, reqI, nFail, backoff, lastStatus, sleeps, errorStatus>>

VARIABLES
    vRecords,         \* scan loop: the records of line 723
    ai_token,         \* scan loop: TRUE when validation is enabled
    vNext,            \* scan loop: the index of the next record
    valOut,           \* scan loop: the rows appended so far (out)
    ai_calls,         \* scan loop: the validation calls that returned
    ai_errors,        \* scan loop: the validation calls that raised
    ai_requests,      \* scan loop: the requests sent to the validation service
    vFailure,         \* scan loop: "none", or "scan" after the except of line 773
    vPc,              \* scan loop: "scan" or "done"
    aiReply           \* scan loop: the reply to the request of the last step,
                      \* or NoReply when the last step made no request

valVars == <<vRecords, ai_token, vNext, valOut, ai_calls, ai_errors, ai_requests,
             vFailure, vPc, aiReply>>

VARIABLES
    vdReply,          \* call_openai_analyze: the reply of the service
    vdResult          \* call_openai_analyze: what the call did, or NotCalled

verdictVars == <<vdReply, vdResult>>

VARIABLES
    inputCells,       \* main: the first cell of each row of the input CSV
    repos,            \* main: the list read_input_csv returned
    max_workers,      \* main: the size of the thread pool
    taskState,        \* main: per future, "queued", "running" or "finished"
    taskResult,       \* main: per future, the outcome of process_repo
    mainPc,           \* main: "start", "wait", "append", "report", "finished",
                      \* "no_repos" or "aborted"
    batches,          \* the futures whose append_rows call returned, in order
    curFuture,        \* main: the future of the current loop iteration, or 0
    curRows,          \* main: the rows of the current iteration
    curWritten,       \* append_rows: the rows of the batch written so far
    outputFile,       \* the rows of the output CSV, in file order
    reports,          \* the futures of the "[done]" lines, in print order
    total_rows,       \* main: the local variable total_rows
    yielded           \* the futures as_completed has yielded

mainVars == <<inputCells, repos, max_workers, taskState, taskResult, mainPc, batches, curFuture,
              curRows, curWritten, outputFile, reports, total_rows, yielded>>

VARIABLES
    mText,            \* matcher: the text given to match_concepts
    mHits,            \* matcher: the value of match_concepts(text), or NotMatched
    mCooccurs         \* matcher: the value of sentence_level_cooccurrence(text),
                      \* or NotMatched

matchVars == <<mText, mHits, mCooccurs>>

VARIABLES
    threads           \* counters: per worker thread, its position in the loop
                      \* of github_request, the value it read from the
                      \* process-wide counter, its task's request_counter and
                      \* the HTTP attempts its task will still make

countVars == <<threads>>

vars == <<scanVars, rtVars, taskVars, fetchVars, reqVars, valVars, verdictVars, mainVars,
          matchVars, countVars>>

(***************************************************************************)
(* Characters                                                              *)
(***************************************************************************)

\* str.lower() on the characters a text of the model can hold
\* (re.IGNORECASE, line 151)
Lower(c) ==
    CASE c = "A" -> "a"
      [] c = "F" -> "f"
      [] c = "I" -> "i"
      [] c = "X" -> "x"
      [] OTHER -> c

\* str.isalnum() of one character (lines 146-147)
Alnum ==
    {"a", "b", "c", "e", "f", "g", "h", "i", "n", "o", "p", "r", "s", "t", "u",
     "x", "A", "F", "I", "X", "0", "1"}

\* the class [A-Za-z0-9_] of the lookarounds (lines 148-149)
WordChars == Alnum \cup {"_"}

\* the class \s of NT_STANDALONE_RE and of str.strip()
Whitespace == {" ", "\n"}

\* the separators of re.split(r"[\.!?\n]", text) (line 208)
FragmentSeparators == {".", "!", "?", "\n"}

(***************************************************************************)
(* CONCEPTS: the keyword buckets (a sub-table of lines 78-127)             *)
(***************************************************************************)

Buckets == {"OS", "FIX", "TEST_CI", "CAUSE", "API"}

CONCEPTS ==
    [b \in Buckets |->
        CASE b = "OS" -> {"aix", "arch"}
          [] b = "FIX" -> {"fix", "bug"}
          [] b = "TEST_CI" -> {"ci"}
          [] b = "CAUSE" -> {".so"}
          [] b = "API" -> {"os.sep"}]

\* the characters of each keyword
KwChars(kw) ==
    CASE kw = "aix" -> <<"a", "i", "x">>
      [] kw = "arch" -> <<"a", "r", "c", "h">>
      [] kw = "fix" -> <<"f", "i", "x">>
      [] kw = "bug" -> <<"b", "u", "g">>
      [] kw = "ci" -> <<"c", "i">>
      [] kw = ".so" -> <<".", "s", "o">>
      [] kw = "os.sep" -> <<"o", "s", ".", "s", "e", "p">>
      [] kw = "nt" -> <<"n", "t">>

\* every keyword, in the order sorted() gives to Python strings
KeywordOrder == <<".so", "aix", "arch", "bug", "ci", "fix", "nt", "os.sep">>

\* sorted(set(found)) for a set of keywords
SortedKeywords(S) == SelectSeq(KeywordOrder, LAMBDA k : k \in S)

(***************************************************************************)
(* compile_keyword_regexes and match_concepts                              *)
(***************************************************************************)

\* the literal re.escape(kw) matches text at position i, ignoring case
LiteralAt(chars, text, i) ==
    /\ i >= 1
    /\ i + Len(chars) - 1 <= Len(text)
    /\ \A j \in 1..Len(chars) : Lower(text[i + j - 1]) = chars[j]

\* a pattern without the lookbehind
LeftBoundary_None(chars, text, i) == TRUE

\* (?<![A-Za-z0-9_]) when the keyword starts with an alphanumeric character
LeftBoundary(chars, text, i) ==
    chars[1] \in Alnum => (i = 1 \/ text[i - 1] \notin WordChars)

\* (?![A-Za-z0-9_]) when the keyword ends with an alphanumeric character
RightBoundary(chars, text, i) ==
    chars[Len(chars)] \in Alnum =>
        (i + Len(chars) - 1 = Len(text) \/ text[i + Len(chars)] \notin WordChars)

\* rx.search(text) for the pattern compiled from kw
KeywordSearch(kw, text) ==
    \E i \in 1..Len(text) :
        /\ LiteralAt(KwChars(kw), text, i)
        /\ LeftBoundary(KwChars(kw), text, i)
        /\ RightBoundary(KwChars(kw), text, i)

\* NT_QUOTED_RE.search(text): "nt" between double quotes
NT_QUOTED_RE(text) ==
    \E i \in 1..Len(text) : LiteralAt(<<"\"", "n", "t", "\"">>, text, i)

\* NT_STANDALONE_RE.search(text): (?<!\S)nt(?!\S)
NT_STANDALONE_RE(text) ==
    \E i \in 1..Len(text) :
        /\ LiteralAt(<<"n", "t">>, text, i)
        /\ (i = 1 \/ text[i - 1] \in Whitespace)
        /\ (i + 1 = Len(text) \/ text[i + 2] \in Whitespace)

\* the keywords of bucket b found in text, with the special case of "nt"
FoundIn(b, text) ==
    {kw \in CONCEPTS[b] : KeywordSearch(kw, text)}
    \cup (IF b = "OS" /\ (NT_QUOTED_RE(text) \/ NT_STANDALONE_RE(text))
          THEN {"nt"} ELSE {})

\* match_concepts(text): a function from the buckets that have a hit to the
\* set of their matched keywords (Python keeps sorted(set(found)))
match_concepts(text) ==
    IF Len(text) = 0 THEN [b \in {} |-> {}]
    ELSE [b \in {c \in Buckets : FoundIn(c, text) # {}} |-> FoundIn(b, text)]

\* hits.get(key) as a set ({} when the key is missing)
HitsGet(hits, key) == IF key \in DOMAIN hits THEN hits[key] ELSE {}

\* has_os_and_fix(hits)
has_os_and_fix(hits) == HitsGet(hits, "OS") # {} /\ HitsGet(hits, "FIX") # {}

\* re.split(r"[\.!?\n]", text): the fragments between separators
RECURSIVE SplitFragments(_, _, _)
SplitFragments(text, i, cur) ==
    IF i > Len(text) THEN <<cur>>
    ELSE IF text[i] \in FragmentSeparators
         THEN <<cur>> \o SplitFragments(text, i + 1, <<>>)
         ELSE SplitFragments(text, i + 1, Append(cur, text[i]))

\* a gate that looks at the whole text instead of its fragments
sentence_level_cooccurrence_WholeText(text) ==
    has_os_and_fix(match_concepts(text))

\* sentence_level_cooccurrence(text)
sentence_level_cooccurrence(text) ==
    /\ Len(text) > 0
    /\ LET frags == SplitFragments(text, 1, <<>>)
       IN \E k \in 1..Len(frags) :
            /\ Len(frags[k]) > 0
            /\ has_os_and_fix(match_concepts(frags[k]))

\* format_concept_hits(hits): the "; "-joined parts as a sequence of
\* <<bucket, sorted keywords>>, buckets in the fixed order
BucketOrder == <<"OS", "FIX", "TEST_CI", "CAUSE", "API">>

format_concept_hits(hits) ==
    LET present == SelectSeq(BucketOrder, LAMBDA b : HitsGet(hits, b) # {})
    IN [k \in 1..Len(present) |-> <<present[k], SortedKeywords(hits[present[k]])>>]

(***************************************************************************)
(* sentence_level_artifact_scan                                            *)
(***************************************************************************)

\* aggregated_hits.setdefault(k, []).extend(vals) for every bucket of hits,
\* read after sorted(set(...))
MergeHits(agg, hits) ==
    [b \in (DOMAIN agg) \cup (DOMAIN hits) |-> HitsGet(agg, b) \cup HitsGet(hits, b)]

\* sorted(set(source_parts)): Python orders "body" < "comment" < "title"
PartOrder == <<"body", "comment", "title">>

SortedParts(S) == SelectSeq(PartOrder, LAMBDA p : p \in S)

\* "+".join(parts)
RECURSIVE JoinPlus(_)
JoinPlus(parts) ==
    IF Len(parts) = 0 THEN ""
    ELSE IF Len(parts) = 1 THEN parts[1]
    ELSE parts[1] \o "+" \o JoinPlus(Tail(parts))

\* a variant that joins the parts in the order of appending (title, body,
\* comment) instead of sorting them
SourceTag_Unsorted(S) ==
    IF S = {} THEN "title"
    ELSE JoinPlus(SelectSeq(<<"title", "body", "comment">>, LAMBDA p : p \in S))

\* "+".join(sorted(set(source_parts))) or "title"
SourceTag(S) == IF S = {} THEN "title" ELSE JoinPlus(SortedParts(S))

\* the return value None
NoFinding == [kind |-> "None"]

\* Phase 1 state after the loop over title and body (lines 603-618)
aggregated_hits_tb(detail) ==
    MergeHits(match_concepts(detail.title), match_concepts(detail.body))

source_parts_tb(detail) ==
    {p \in {"title"} : DOMAIN match_concepts(detail.title) # {}}
    \cup {p \in {"body"} : DOMAIN match_concepts(detail.body) # {}}

local_ok_tb(detail) ==
    sentence_level_cooccurrence(detail.title) \/ sentence_level_cooccurrence(detail.body)

\* the condition of the early return (line 621)
Phase1Passes(detail) ==
    LET hits == aggregated_hits_tb(detail)
    IN /\ DOMAIN hits # {}
       /\ local_ok_tb(detail)
       /\ has_os_and_fix(hits)

\* Phase 2 state after the loop over the comments (lines 640-651)
RECURSIVE aggregated_hits(_, _)
aggregated_hits(detail, comments) ==
    IF Len(comments) = 0 THEN aggregated_hits_tb(detail)
    ELSE MergeHits(aggregated_hits(detail, SubSeq(comments, 1, Len(comments) - 1)),
                   match_concepts(comments[Len(comments)]))

\* a variant that never records a contributing comment
source_parts_NoComment(detail, comments) == source_parts_tb(detail)

source_parts(detail, comments) ==
    source_parts_tb(detail)
    \cup {p \in {"comment"} :
            \E k \in 1..Len(comments) : DOMAIN match_concepts(comments[k]) # {}}

local_ok(detail, comments) ==
    \/ local_ok_tb(detail)
    \/ \E k \in 1..Len(comments) : sentence_level_cooccurrence(comments[k])

\* a variant of the final filter without the proximity gate
Phase2Passes_NoGate(detail, comments) ==
    /\ DOMAIN aggregated_hits(detail, comments) # {}
    /\ has_os_and_fix(aggregated_hits(detail, comments))

\* the negation of the final filter (line 654)
Phase2Passes(detail, comments) ==
    LET hits == aggregated_hits(detail, comments)
    IN /\ DOMAIN hits # {}
       /\ local_ok(detail, comments)
       /\ has_os_and_fix(hits)

\* a scan without the early return: the comments are always inspected
sentence_level_artifact_scan_NoEarlyReturn(detail, comments) ==
    IF Phase2Passes(detail, comments)
    THEN [kind |-> "finding",
          source |-> SourceTag(source_parts(detail, comments)),
          keyword |-> format_concept_hits(aggregated_hits(detail, comments)),
          enrichment_input |->
              [title |-> detail.title, body |-> detail.body, comments |-> comments]]
    ELSE NoFinding

\* a staging that keeps only the comments in which a keyword was found
comments_only_WithHits(comments) ==
    SelectSeq(comments, LAMBDA c : DOMAIN match_concepts(c) # {})

\* comments_only (line 658): every entry of text_blobs labelled "comment",
\* which are the preloaded comments in their order (lines 637-638)
comments_only(comments) == comments

\* sentence_level_artifact_scan(owner_repo, detail, preloaded_comments)
sentence_level_artifact_scan(detail, comments) ==
    IF Phase1Passes(detail)
    THEN [kind |-> "finding",
          source |-> SourceTag(source_parts_tb(detail)),
          keyword |-> format_concept_hits(aggregated_hits_tb(detail)),
          enrichment_input |->
              [title |-> detail.title, body |-> detail.body, comments |-> <<>>]]
    ELSE IF Phase2Passes(detail, comments)
    THEN [kind |-> "finding",
          source |-> SourceTag(source_parts(detail, comments)),
          keyword |-> format_concept_hits(aggregated_hits(detail, comments)),
          enrichment_input |->
              [title |-> detail.title, body |-> detail.body,
               comments |-> comments_only(comments)]]
    ELSE NoFinding

\* which return statement of the scan is taken: 1 (line 628), 2 (line 664),
\* 0 (line 655)
ScanPhase(detail, comments) ==
    IF Phase1Passes(detail) THEN 1
    ELSE IF Phase2Passes(detail, comments) THEN 2
    ELSE 0

(***************************************************************************)
(* Cache records and their JSON text                                       *)
(*                                                                         *)
(* A record is {"issue": detail, "comments": [bodies]} (lines 711-714).    *)
(* Of the detail the model keeps the fields the program reads: number,     *)
(* title, body, the comment count and the presence of "pull_request".      *)
(* Its JSON text is modelled character by character, positionally:         *)
(*   {number,pull_request,count,"title","body",["comment",...]}            *)
(***************************************************************************)

DigitChars == <<"0", "1", "2", "3", "4", "5", "6", "7", "8", "9">>

\* the decimal text of a one-digit number
DumpNum(n) == <<DigitChars[n + 1]>>

\* detail.get(key) for a key the issue object does not hold: None, as a
\* number and as a text
NoneNumber == 0 - 1
NoneText == <<"None">>

\* the "html_url" member of an issue of the listing: the address of the
\* issue, which ends with its number
html_url(number) == <<"/">> \o DumpNum(number)

DumpFlag(b) == IF b THEN <<"t">> ELSE <<"f">>

\* a variant of the string encoder that writes every character as it is
DumpChars_Raw(text) == text

\* json.dumps of the characters of a string: quote, backslash and newline
\* are written as two-character escapes
RECURSIVE DumpChars(_)
DumpChars(text) ==
    IF Len(text) = 0 THEN <<>>
    ELSE (CASE text[1] = "\"" -> <<"\\", "\"">>
            [] text[1] = "\\" -> <<"\\", "\\">>
            [] text[1] = "\n" -> <<"\\", "n">>
            [] OTHER -> <<text[1]>>) \o DumpChars(Tail(text))

DumpStr(text) == <<"\"">> \o DumpChars(text) \o <<"\"">>

RECURSIVE DumpStrs(_)
DumpStrs(texts) ==
    IF Len(texts) = 0 THEN <<>>
    ELSE IF Len(texts) = 1 THEN DumpStr(texts[1])
    ELSE DumpStr(texts[1]) \o <<",">> \o DumpStrs(Tail(texts))

\* json.dumps(rec, ensure_ascii=False) (line 273)
json_dumps(rec) ==
    <<"{">> \o DumpNum(rec.issue.number) \o <<",">>
    \o DumpFlag(rec.issue.pull_request) \o <<",">>
    \o DumpNum(rec.issue.comments) \o <<",">>
    \o DumpStr(rec.issue.title) \o <<",">>
    \o DumpStr(rec.issue.body) \o <<",", "[">>
    \o DumpStrs(rec.comments) \o <<"]", "}">>

ParseFail == [ok |-> FALSE]

\* the characters of a JSON string from position j up to its closing quote
RECURSIVE ParseChars(_, _, _)
ParseChars(s, j, acc) ==
    IF j > Len(s) THEN ParseFail
    ELSE IF s[j] = "\"" THEN [ok |-> TRUE, val |-> acc, nxt |-> j + 1]
    ELSE IF s[j] = "\n" THEN ParseFail
    ELSE IF s[j] = "\\"
    THEN IF j + 1 > Len(s) THEN ParseFail
         ELSE IF s[j + 1] = "n" THEN ParseChars(s, j + 2, Append(acc, "\n"))
         ELSE IF s[j + 1] \in {"\"", "\\"} THEN ParseChars(s, j + 2, Append(acc, s[j + 1]))
         ELSE ParseFail
    ELSE ParseChars(s, j + 1, Append(acc, s[j]))

\* a JSON string starting at position i
ParseStr(s, i) ==
    IF i <= Len(s) /\ s[i] = "\"" THEN ParseChars(s, i + 1, <<>>) ELSE ParseFail

\* the elements of a JSON array of strings from position i up to its "]"
RECURSIVE ParseStrs(_, _, _)
ParseStrs(s, i, acc) ==
    IF i > Len(s) THEN ParseFail
    ELSE IF s[i] = "]" /\ Len(acc) = 0 THEN [ok |-> TRUE, val |-> acc, nxt |-> i + 1]
    ELSE LET e == ParseStr(s, i)
         IN IF ~e.ok \/ e.nxt > Len(s) THEN ParseFail
            ELSE IF s[e.nxt] = "]"
                 THEN [ok |-> TRUE, val |-> Append(acc, e.val), nxt |-> e.nxt + 1]
            ELSE IF s[e.nxt] = ","
                 THEN ParseStrs(s, e.nxt + 1, Append(acc, e.val))
            ELSE ParseFail

\* the position of a digit character, or 0
DigitIndex(c) ==
    IF \E d \in 1..10 : DigitChars[d] = c
    THEN CHOOSE d \in 1..10 : DigitChars[d] = c
    ELSE 0

\* s holds the character c at position i
CharAt(s, i, c) == i <= Len(s) /\ s[i] = c

\* json.loads(line) (line 258): the record, a number for a line that holds
\* one digit, or a parse failure
json_loads(s) ==
    IF Len(s) = 1 /\ DigitIndex(s[1]) > 0
    THEN [ok |-> TRUE, val |-> [scalar |-> DigitIndex(s[1]) - 1]]
    ELSE IF ~(/\ CharAt(s, 1, "{")
         /\ Len(s) >= 8
         /\ DigitIndex(s[2]) > 0
         /\ CharAt(s, 3, ",")
         /\ s[4] \in {"t", "f"}
         /\ CharAt(s, 5, ",")
         /\ DigitIndex(s[6]) > 0
         /\ CharAt(s, 7, ","))
    THEN ParseFail
    ELSE LET t == ParseStr(s, 8)
         IN IF ~t.ok \/ ~CharAt(s, t.nxt, ",") THEN ParseFail
            ELSE LET b == ParseStr(s, t.nxt + 1)
                 IN IF ~b.ok \/ ~CharAt(s, b.nxt, ",") \/ ~CharAt(s, b.nxt + 1, "[")
                    THEN ParseFail
                    ELSE LET c == ParseStrs(s, b.nxt + 2, <<>>)
                         IN IF ~c.ok \/ ~CharAt(s, c.nxt, "}") \/ c.nxt # Len(s)
                            THEN ParseFail
                            ELSE [ok |-> TRUE,
                                  val |-> [issue |-> [number |-> DigitIndex(s[2]) - 1,
                                                      html_url |-> html_url(DigitIndex(s[2]) - 1),
                                                      pull_request |-> s[4] = "t",
                                                      comments |-> DigitIndex(s[6]) - 1,
                                                      title |-> t.val,
                                                      body |-> b.val],
                                           comments |-> c.val]]

(***************************************************************************)
(* load_repo_cache and save_repo_cache                                     *)
(***************************************************************************)

\* a cache file: absent, or present with its characters
AbsentFile == [exists |-> FALSE, content |-> <<>>]

FileOf(chars) == [exists |-> TRUE, content |-> chars]

\* the positions of the newline characters of a text file
NewlinePositions(chars) == {i \in 1..Len(chars) : chars[i] = "\n"}

\* the position of the k-th newline; 0 for k = 0, and one past the end
\* when the file has fewer than k newlines
NewlineAt(chars, k) ==
    IF k = 0 THEN 0
    ELSE IF k > Cardinality(NewlinePositions(chars)) THEN Len(chars) + 1
    ELSE CHOOSE p \in NewlinePositions(chars) :
            Cardinality({q \in NewlinePositions(chars) : q < p}) = k - 1

\* the lines of a text file, each without its newline ("for line in f"):
\* one per newline, and one more when characters follow the last newline
SplitLines(chars) ==
    LET n == Cardinality(NewlinePositions(chars))
        count == IF NewlineAt(chars, n) < Len(chars) THEN n + 1 ELSE n
    IN [k \in 1..count |->
            SubSeq(chars, NewlineAt(chars, k - 1) + 1, NewlineAt(chars, k) - 1)]

\* line.strip() (line 254)
RECURSIVE Strip(_)
Strip(line) ==
    IF Len(line) = 0 THEN line
    ELSE IF line[1] \in Whitespace THEN Strip(Tail(line))
    ELSE IF line[Len(line)] \in Whitespace THEN Strip(SubSeq(line, 1, Len(line) - 1))
    ELSE line

\* the loop of lines 253-260: blank lines and unparseable lines are skipped
RECURSIVE ParseLines(_)
ParseLines(lines) ==
    IF Len(lines) = 0 THEN <<>>
    ELSE LET line == Strip(lines[1])
             rest == ParseLines(Tail(lines))
         IN IF Len(line) = 0 THEN rest
            ELSE IF json_loads(line).ok THEN <<json_loads(line).val>> \o rest
            ELSE rest

\* the return value None of load_repo_cache
CacheMiss == [hit |-> FALSE, records |-> <<>>]

\* a byte sequence of the file that is not UTF-8: reading it raises
\* UnicodeDecodeError in the loop of line 253
Undecodable == "0xFF"

\* a load that gives up at the first line it cannot parse
load_repo_cache_Strict(file) ==
    IF ~file.exists \/ Len(file.content) = 0 THEN CacheMiss
    ELSE IF \E i \in 1..Len(file.content) : file.content[i] = Undecodable THEN CacheMiss
    ELSE LET lines == SplitLines(file.content)
             recs == ParseLines(lines)
         IN IF Len(recs) = 0
               \/ \E k \in 1..Len(lines) :
                     Len(Strip(lines[k])) > 0 /\ ~json_loads(Strip(lines[k])).ok
            THEN CacheMiss
            ELSE [hit |-> TRUE, records |-> recs]

\* load_repo_cache(owner_repo), reading the repository's cache file: None
\* for an absent or empty file (lines 249-250), for a file that cannot be
\* read (the except of line 262) and for a file without a parseable line
\* (line 261)
load_repo_cache(file) ==
    IF ~file.exists \/ Len(file.content) = 0 THEN CacheMiss
    ELSE IF \E i \in 1..Len(file.content) : file.content[i] = Undecodable THEN CacheMiss
    ELSE LET recs == ParseLines(SplitLines(file.content))
         IN IF Len(recs) = 0 THEN CacheMiss
            ELSE [hit |-> TRUE, records |-> recs]

\* the characters written by lines 272-274
RECURSIVE FileText(_)
FileText(recs) ==
    IF Len(recs) = 0 THEN <<>>
    ELSE json_dumps(recs[1]) \o <<"\n">> \o FileText(Tail(recs))

\* save_repo_cache(owner_repo, records): the cache file afterwards.  When
\* makedirs or open raises (io_ok false) the exception is swallowed and the
\* file is left as it was.
save_repo_cache(file, recs, io_ok) ==
    IF io_ok THEN FileOf(FileText(recs)) ELSE file


(***************************************************************************)
(* github_request: the retry loop of one call                              *)
(***************************************************************************)

\* a loop of one iteration more
MaxAttempts_Seven == 6 + 1

\* for _ in range(6) (line 404)
MaxAttempts == 6

\* backoff = 2.0 (line 402)
InitialBackoff == 2

\* the cap of min(backoff * 2.0, 60.0) (line 427)
BackoffCap == 60

\* the responses of the tracker: a status code and X-RateLimit-Remaining
Responses == [status : {200, 403, 500}, remaining : {"0", "57"}]

\* resp.status_code == 403 and X-RateLimit-Remaining == "0" (line 415)
IsRateLimited(resp) == resp.status = 403 /\ resp.remaining = "0"

\* 200 <= resp.status_code < 300 (line 422)
IsSuccess(resp) == 200 <= resp.status /\ resp.status < 300

\* a loop that never runs out of iterations
LoopExhausted_Never(i) == FALSE

\* the for loop has no iteration left after i of them
LoopExhausted(i) == i >= MaxAttempts

\* a doubling without the cap
NextBackoff_Uncapped(b) == b * 2

\* backoff = min(backoff * 2.0, 60.0) (line 427)
NextBackoff(b) == IF b * 2 < BackoffCap THEN b * 2 ELSE BackoffCap

\* the HTTP attempts this call has made so far
reqAttempts == reqI + (IF reqPc \in {"returned", "network_error"} THEN 1 ELSE 0)

\* the rate-limit responses this call has received
nRateLimited == reqI - nFail

\* the entry of github_request (lines 401-402)
BeginRequest(url) ==
    /\ reqUrl' = url
    /\ reqPc' = "attempt"
    /\ reqI' = 0
    /\ nFail' = 0
    /\ backoff' = InitialBackoff
    /\ lastStatus' = 0
    /\ sleeps' = <<>>
    /\ errorStatus' = 0

\* one iteration of the loop in which requests.request returns a response
\* (lines 405-427), and the raise of line 429 when it was the last one
HttpAttempt ==
    /\ pc = "fetch"
    /\ reqPc = "attempt"
    /\ \E resp \in Responses :
        /\ IsSuccess(resp) \/ faultsLeft > 0
        /\ faultsLeft' = IF IsSuccess(resp) THEN faultsLeft ELSE faultsLeft - 1
        /\ request_counter' = request_counter + 1
        /\ GLOBAL_REQUEST_COUNTER' = GLOBAL_REQUEST_COUNTER + 1
        /\ lastStatus' = resp.status
        /\ IF IsRateLimited(resp)
           THEN \* sleep until the reset, then continue
                /\ reqI' = reqI + 1
                /\ reqPc' = IF LoopExhausted(reqI + 1) THEN "raised" ELSE "attempt"
                /\ UNCHANGED <<nFail, backoff, sleeps>>
           ELSE IF IsSuccess(resp)
           THEN /\ reqPc' = "returned"
                /\ UNCHANGED <<reqI, nFail, backoff, sleeps>>
           ELSE \* sleep the backoff and double it
                /\ reqI' = reqI + 1
                /\ nFail' = nFail + 1
                /\ sleeps' = Append(sleeps, backoff)
                /\ backoff' = NextBackoff(backoff)
                /\ reqPc' = IF LoopExhausted(reqI + 1) THEN "raised" ELSE "attempt"
    /\ UNCHANGED <<errorStatus, reqUrl, issuesPage, pending, curDetail, commentsPage, comments_json,
                   fetched_records, pageLog, upstream, cacheFile, pc, cacheAtStart, cached,
                   records, out, saved, failure, prev, scanVars, rtVars,
                   valVars, verdictVars, mainVars,
                   matchVars, countVars>>

\* one iteration in which requests.request raises (no response): nothing in
\* github_request or paginated_get catches it, so it reaches the except
\* clause of process_repo (lines 773-774), which ends the task
HttpNetworkError ==
    /\ pc = "fetch"
    /\ reqPc = "attempt"
    /\ faultsLeft > 0
    /\ faultsLeft' = faultsLeft - 1
    /\ request_counter' = request_counter + 1
    /\ GLOBAL_REQUEST_COUNTER' = GLOBAL_REQUEST_COUNTER + 1
    /\ reqPc' = "network_error"
    /\ failure' = "network"
    /\ pc' = "done"
    /\ UNCHANGED <<reqI, nFail, backoff, lastStatus, sleeps, errorStatus, reqUrl,
                   issuesPage, pending,
                   curDetail, commentsPage, comments_json, fetched_records, pageLog,
                   upstream, cacheFile, cacheAtStart, cached, records, out, saved, prev,
                   scanVars, rtVars,
                   valVars, verdictVars, mainVars,
                   matchVars, countVars>>

\* the RuntimeError of line 429 reaches the except clause of process_repo
TransportError ==
    /\ pc = "fetch"
    /\ reqPc = "raised"
    /\ errorStatus' = lastStatus
    /\ failure' = "transport"
    /\ pc' = "done"
    /\ UNCHANGED <<reqPc, reqI, nFail, backoff, lastStatus, sleeps, fetchVars, faultsLeft,
                   upstream, cacheFile, cacheAtStart, cached, records, out, saved, prev,
                   scanVars, rtVars,
                   valVars, verdictVars, mainVars,
                   matchVars, countVars>>

(***************************************************************************)
(* Texts of the model                                                      *)
(***************************************************************************)

T_empty == <<>>
\* "fix aix": an OS and a FIX keyword in one fragment
T_fix_aix == <<"f", "i", "x", " ", "a", "i", "x">>
\* "Fix. AIX": both keywords, in two fragments
T_fix_dot_aix == <<"F", "i", "x", ".", " ", "A", "I", "X">>
\* "fix nt.": "nt" is standalone in its fragment, not in the whole text
T_fix_nt_dot == <<"f", "i", "x", " ", "n", "t", ".">>
\* "aix": an OS keyword alone
T_aix == <<"a", "i", "x">>
\* "bug": a FIX keyword alone
T_bug == <<"b", "u", "g">>
\* "ci": a TEST_CI keyword alone
T_ci == <<"c", "i">>
\* "fixs": no keyword at all
T_fixs == <<"f", "i", "x", "s">>

ScanTexts ==
    {T_empty, T_fix_aix, T_fix_dot_aix, T_fix_nt_dot, T_aix, T_bug, T_ci, T_fixs}

\* the longest comment list of a scanned issue
MaxComments == 2

CommentLists == UNION {[1..n -> ScanTexts] : n \in 0..MaxComments}

\* a cache record made of its fields
Record(number, is_pr, title, body, comments) ==
    [issue |-> [number |-> number, html_url |-> html_url(number),
                pull_request |-> is_pr,
                comments |-> Len(comments), title |-> title, body |-> body],
     comments |-> comments]

(***************************************************************************)
(* Each specification below runs one part of the program; the variables of *)
(* the other parts keep the values given here.                             *)
(***************************************************************************)

\* no scan has been made yet
NotScanned == [kind |-> "NotScanned"]

\* load_repo_cache has not been called yet
NotLoaded == [hit |-> FALSE, records |-> <<>>, pending |-> TRUE]

\* the scan variables while another specification runs
ScanIdle ==
    /\ scanDetail = [title |-> T_empty, body |-> T_empty]
    /\ scanComments = <<>>
    /\ scanEnriched = NotScanned

\* the round-trip variables while another specification runs
RtIdle ==
    /\ rtRecords = <<>>
    /\ rtFile = AbsentFile
    /\ rtSaved = "no"
    /\ rtLoaded = NotLoaded

\* no request was sent to the validation service
NoReply == [exception |-> "none", status |-> 0, envelope |-> "none",
            content |-> [json |-> "none", members |-> <<>>]]

\* the scan-loop variables while another specification runs
ValIdle ==
    /\ vRecords = <<>>
    /\ ai_token = FALSE
    /\ vNext = 1
    /\ valOut = <<>>
    /\ ai_calls = 0
    /\ ai_errors = 0
    /\ ai_requests = 0
    /\ vFailure = "none"
    /\ vPc = "done"
    /\ aiReply = NoReply

\* call_openai_analyze has not been called yet
NotCalled == [called |-> FALSE]

\* the variables of call_openai_analyze while another specification runs
VerdictIdle ==
    /\ vdReply = NoReply
    /\ vdResult = NotCalled

\* the variables of main while another specification runs
MainIdle ==
    /\ inputCells = <<>>
    /\ repos = <<>>
    /\ max_workers = 1
    /\ taskState = <<>>
    /\ taskResult = <<>>
    /\ mainPc = "no_repos"
    /\ batches = <<>>
    /\ curFuture = 0
    /\ curRows = <<>>
    /\ curWritten = 0
    /\ outputFile = <<>>
    /\ reports = <<>>
    /\ total_rows = 0
    /\ yielded = {}

\* match_concepts has not been called yet
NotMatched == [kind |-> "NotMatched"]

\* the variables of the matcher while another specification runs
MatchIdle ==
    /\ mText = <<>>
    /\ mHits = NotMatched
    /\ mCooccurs = NotMatched

\* the variables of the worker threads while another specification runs
CountIdle == threads = <<>>

(***************************************************************************)
(* The tracker: the issues of the repository and their comment threads     *)
(***************************************************************************)

\* the comment thread of each issue, by issue number
Thread(number) ==
    CASE number = 2 -> <<T_ci, T_fix_aix, T_fixs>>
      [] number = 3 -> <<T_ci>>
      [] OTHER -> <<>>

\* the items the listing endpoint can return: 1 passes the gates on its
\* title, 2 only with its second comment, 3 is a pull request, 4 has both
\* keywords but in two sentences
Catalogue ==
    {Record(1, FALSE, T_fix_aix, T_empty, Thread(1)).issue,
     Record(2, FALSE, T_bug, T_aix, Thread(2)).issue,
     Record(3, TRUE, T_fix_aix, T_empty, Thread(3)).issue,
     Record(4, FALSE, T_fix_dot_aix, T_empty, Thread(4)).issue}

\* the longest issue listing of the repository
MaxIssues == 2

\* the number of items of a full page ("per_page" of line 443, scaled down)
PerPage == 2

Listings ==
    {l \in UNION {[1..n -> Catalogue] : n \in 0..MaxIssues} :
        \A i, j \in 1..Len(l) : i # j => l[i].number # l[j].number}

\* the items of one page of a sequence
PageOf(items, page) ==
    SubSeq(items, (page - 1) * PerPage + 1,
           IF page * PerPage < Len(items) THEN page * PerPage ELSE Len(items))

\* the record process_repo builds for an upstream issue (lines 711-714)
RecordOf(detail) == [issue |-> detail, comments |-> Thread(detail.number)]

\* record lists found in the cache file when the program starts: complete
\* fetches of earlier runs, one of them of an older state of issue 1, one
\* with a pull request among its records
CachedLists ==
    {<<RecordOf(Record(1, FALSE, T_fix_aix, T_empty, <<>>).issue)>>,
     <<Record(1, FALSE, T_bug, T_empty, <<>>)>>,
     <<RecordOf(Record(2, FALSE, T_bug, T_aix, Thread(2)).issue),
       RecordOf(Record(1, FALSE, T_fix_aix, T_empty, <<>>).issue)>>,
     <<RecordOf(Record(3, TRUE, T_fix_aix, T_empty, Thread(3)).issue),
       RecordOf(Record(4, FALSE, T_fix_dot_aix, T_empty, <<>>).issue),
       RecordOf(Record(2, FALSE, T_bug, T_aix, Thread(2)).issue)>>}

InitialCaches ==
    {AbsentFile, FileOf(<<>>)} \cup {FileOf(FileText(l)) : l \in CachedLists}

(***************************************************************************)
(* process_repo                                                            *)
(***************************************************************************)

\* the owner/repo of the task
Repo == "owner/repo"

\* the truncation of the summary column (line 762)
SummaryLimit == 180

Truncate(text, n) == SubSeq(text, 1, IF Len(text) < n THEN Len(text) ELSE n)

\* the validation fields when no validation is run (lines 739-740)
NoAiFields ==
    [ai_issue_summary |-> <<>>, ai_is_os_portability |-> <<>>,
     ai_is_fix_merged |-> <<>>, ai_confidence_pct |-> <<>>]

\* the result row of a finding (lines 757-770), validation disabled
Row(detail, enriched) ==
    [repository |-> Repo,
     type |-> "Issue",
     source |-> enriched.source,
     keyword |-> enriched.keyword,
     summary |-> Truncate(Strip(detail.title), SummaryLimit),
     link |-> detail.html_url,
     status |-> "To review",
     number |-> detail.number,
     ai |-> NoAiFields]

\* a listing in which no item is taken for a pull request
IsPullRequest_Never(detail) == FALSE

\* "pull_request" in detail (lines 700, 727)
IsPullRequest(detail) == detail.pull_request

\* a list in which the row of a record follows the rows of the later records
OutAppend_AfterLater(row, later) == later \o <<row>>

\* out.append (line 757): the row of a record precedes the rows of the
\* records that the loop of line 723 reaches after it
OutAppend(row, later) == <<row>> \o later

\* the loop over the records (lines 723-771): pull requests are skipped,
\* every other record is scanned and gives a row when it has a finding
RECURSIVE ScanRows(_)
ScanRows(recs) ==
    IF Len(recs) = 0 THEN <<>>
    ELSE LET detail == recs[1].issue
             enriched == sentence_level_artifact_scan(detail, recs[1].comments)
         IN IF IsPullRequest(detail) \/ enriched = NoFinding
            THEN ScanRows(Tail(recs))
            ELSE OutAppend(Row(detail, enriched), ScanRows(Tail(recs)))

\* the consumer of paginated_get over the issues (lines 697-714), run on the
\* items of a page up to its next HTTP request: pull requests are skipped,
\* an issue without comments gives a record at once, an issue with comments
\* needs its comment listing first, and an exhausted page needs the next one
RECURSIVE ConsumeItems(_, _)
ConsumeItems(items, fetched) ==
    IF Len(items) = 0
    THEN [next |-> "issues", rest |-> <<>>, fetched |-> fetched]
    ELSE IF IsPullRequest(items[1])
    THEN ConsumeItems(Tail(items), fetched)
    ELSE IF items[1].comments > 0
    THEN [next |-> "comments", rest |-> items, fetched |-> fetched]
    ELSE ConsumeItems(Tail(items), Append(fetched, [issue |-> items[1], comments |-> <<>>]))

\* a detail that stands for "no issue"
NoDetail == Record(0, FALSE, T_empty, T_empty, <<>>).issue

\* the effect of ConsumeItems on the fetch variables
ContinueListing(items, fetched) ==
    LET c == ConsumeItems(items, fetched)
    IN /\ fetched_records' = c.fetched
       /\ comments_json' = <<>>
       /\ IF c.next = "comments"
          THEN /\ curDetail' = c.rest[1]
               /\ pending' = Tail(c.rest)
               /\ commentsPage' = 1
               /\ BeginRequest("comments")
               /\ UNCHANGED issuesPage
          ELSE /\ curDetail' = NoDetail
               /\ pending' = <<>>
               /\ commentsPage' = 0
               /\ issuesPage' = issuesPage + 1
               /\ BeginRequest("issues")

\* the cache hit: the cached records are scanned, nothing is fetched and
\* nothing is written (lines 718-719); this variant writes the records
\* back without the first one
OnCacheHit_Rewrites(loaded) ==
    /\ records' = loaded.records
    /\ pc' = "scan"
    /\ cacheFile' = save_repo_cache(cacheFile, Tail(loaded.records), TRUE)
    /\ reqPc' = "none"
    /\ UNCHANGED <<reqUrl, reqI, nFail, backoff, lastStatus, sleeps, errorStatus,
                   issuesPage>>

\* the cache hit: the cached records are scanned, nothing is fetched and
\* nothing is written (lines 718-719)
OnCacheHit(loaded) ==
    /\ records' = loaded.records
    /\ pc' = "scan"
    /\ reqPc' = "none"
    /\ UNCHANGED <<cacheFile, reqUrl, reqI, nFail, backoff, lastStatus, sleeps,
                   errorStatus, issuesPage>>

\* a cache miss that creates the cache file before the fetch
OnCacheMiss_CreatesFile ==
    /\ records' = <<>>
    /\ pc' = "fetch"
    /\ issuesPage' = 1
    /\ BeginRequest("issues")
    /\ cacheFile' = FileOf(<<>>)

\* the cache miss: the first request of paginated_get over the issues
\* (lines 693-698, 440-445)
OnCacheMiss ==
    /\ records' = <<>>
    /\ pc' = "fetch"
    /\ issuesPage' = 1
    /\ BeginRequest("issues")
    /\ UNCHANGED cacheFile

\* a test that takes no cache for usable
CacheUsable_Never(loaded) == FALSE

\* "if cached is None" (line 691)
CacheUsable(loaded) == loaded.hit

\* a call of process_repo (in a new run of the program) up to its first
\* HTTP request or, on a cache hit, up to the scan (lines 682-719)
StartRun ==
    /\ pc \in {"idle", "done"}
    /\ prev' = [valid |-> pc = "done", hit |-> cached.hit, rows |-> out,
                cacheAtStart |-> cacheAtStart]
    /\ out' = <<>>
    /\ request_counter' = 0
    /\ GLOBAL_REQUEST_COUNTER' = 0
    /\ saved' = "no"
    /\ failure' = "none"
    /\ cacheAtStart' = cacheFile
    /\ cached' = load_repo_cache(cacheFile)
    /\ fetched_records' = <<>>
    /\ pageLog' = <<>>
    /\ pending' = <<>>
    /\ curDetail' = NoDetail
    /\ commentsPage' = 0
    /\ comments_json' = <<>>
    /\ IF CacheUsable(load_repo_cache(cacheFile))
       THEN OnCacheHit(load_repo_cache(cacheFile))
       ELSE OnCacheMiss
    /\ UNCHANGED <<upstream, faultsLeft, scanVars, rtVars,
                   valVars, verdictVars, mainVars,
                   matchVars, countVars>>

\* a loop that stops at the first page that is not full
ListingEnds_ShortPage(items) == Len(items) < PerPage

\* "if not items: break" (lines 450-451)
ListingEnds(items) == Len(items) = 0

\* a save_repo_cache that lets the error of a failed write through
SaveRaises_OnError(io_ok) == ~io_ok

\* "except Exception: pass" (lines 275-276): save_repo_cache raises nothing
SaveRaises(io_ok) == FALSE

\* one received page: merged_params of line 443 and len(items)
PageEntry(url, number, page, size) ==
    [url |-> url, number |-> number, page |-> page, size |-> size]

\* paginated_get and its consumer in process_repo after a successful
\* response (lines 446-453, 697-719), up to the next HTTP request
PageReturned ==
    /\ pc = "fetch"
    /\ reqPc = "returned"
    /\ pageLog' = Append(pageLog,
                          IF reqUrl = "comments"
                          THEN PageEntry("comments", curDetail.number, commentsPage,
                                         Len(PageOf(Thread(curDetail.number), commentsPage)))
                          ELSE PageEntry("issues", 0, issuesPage,
                                         Len(PageOf(upstream, issuesPage))))
    /\ IF reqUrl = "comments"
       THEN LET items == PageOf(Thread(curDetail.number), commentsPage)
            IN IF ListingEnds(items)
               THEN \* the comment listing is complete: the record is built
                    /\ ContinueListing(pending,
                          Append(fetched_records,
                                 [issue |-> curDetail, comments |-> comments_json]))
                    /\ UNCHANGED <<pc, records, saved, cacheFile, failure>>
               ELSE /\ comments_json' = comments_json \o items
                    /\ commentsPage' = commentsPage + 1
                    /\ BeginRequest("comments")
                    /\ UNCHANGED <<pc, records, saved, cacheFile, failure, issuesPage,
                                   pending, curDetail, fetched_records>>
       ELSE LET items == PageOf(upstream, issuesPage)
            IN IF ListingEnds(items)
               THEN \* the listing is complete: save_repo_cache, then scan
                    /\ \E io_ok \in BOOLEAN :
                         /\ cacheFile' = save_repo_cache(cacheFile, fetched_records, io_ok)
                         /\ saved' = IF io_ok THEN "ok" ELSE "io_error"
                         /\ IF SaveRaises(io_ok)
                            THEN failure' = "save" /\ pc' = "done" /\ UNCHANGED records
                            ELSE /\ records' = fetched_records
                                 /\ pc' = "scan"
                                 /\ UNCHANGED failure
                    /\ reqPc' = "none"
                    /\ UNCHANGED <<reqUrl, reqI, nFail, backoff, lastStatus, sleeps,
                                   errorStatus, issuesPage, pending, curDetail, commentsPage,
                                   comments_json, fetched_records>>
               ELSE /\ ContinueListing(items, fetched_records)
                    /\ UNCHANGED <<pc, records, saved, cacheFile, failure>>
    /\ UNCHANGED <<upstream, cacheAtStart, cached, out, prev, faultsLeft,
                   request_counter, GLOBAL_REQUEST_COUNTER, scanVars, rtVars,
                   valVars, verdictVars, mainVars,
                   matchVars, countVars>>

\* the loop over the records and the return of process_repo (lines 721-777)
ScanRecords ==
    /\ pc = "scan"
    /\ out' = out \o ScanRows(records)
    /\ pc' = "done"
    /\ UNCHANGED <<upstream, cacheFile, cacheAtStart, cached, records, saved, failure,
                   prev, faultsLeft, fetchVars, reqVars, scanVars, rtVars,
                   valVars, verdictVars, mainVars,
                   matchVars, countVars>>

NoRun == [valid |-> FALSE, hit |-> FALSE, rows |-> <<>>, cacheAtStart |-> AbsentFile]

\* the task variables while another specification runs, and before the
\* first run
TaskIdle ==
    /\ pc = "idle"
    /\ cacheAtStart = AbsentFile
    /\ cached = CacheMiss
    /\ records = <<>>
    /\ out = <<>>
    /\ saved = "no"
    /\ failure = "none"
    /\ prev = NoRun
    /\ request_counter = 0
    /\ GLOBAL_REQUEST_COUNTER = 0
    /\ reqUrl = "issues"
    /\ issuesPage = 0
    /\ pending = <<>>
    /\ curDetail = NoDetail
    /\ commentsPage = 0
    /\ comments_json = <<>>
    /\ fetched_records = <<>>
    /\ pageLog = <<>>
    /\ reqPc = "none"
    /\ reqI = 0
    /\ nFail = 0
    /\ backoff = InitialBackoff
    /\ lastStatus = 0
    /\ sleeps = <<>>
    /\ errorStatus = 0

\* the failures of the tracker in a run over any listing and any cache
MaxFaults == 2

\* the failures of the tracker in a run over LongListing without a cache:
\* enough to exhaust the retries of any one of its requests
MaxRequestFaults == 6

\* a listing of two pages whose first issue has a comment thread of two
\* pages
LongListing ==
    <<Record(2, FALSE, T_bug, T_aix, Thread(2)).issue,
      Record(3, TRUE, T_fix_aix, T_empty, Thread(3)).issue,
      Record(1, FALSE, T_fix_aix, T_empty, Thread(1)).issue>>

Init ==
    /\ ScanIdle
    /\ RtIdle
    /\ ValIdle
    /\ VerdictIdle
    /\ MainIdle
    /\ MatchIdle
    /\ CountIdle
    /\ TaskIdle
    /\ \/ /\ upstream \in Listings
          /\ cacheFile \in InitialCaches
          /\ faultsLeft = MaxFaults
       \/ /\ upstream \in {<<>>, LongListing}
          /\ cacheFile = AbsentFile
          /\ faultsLeft = MaxRequestFaults

Next ==
    \/ StartRun
    \/ HttpAttempt
    \/ HttpNetworkError
    \/ TransportError
    \/ PageReturned
    \/ ScanRecords

Spec == Init /\ [][Next]_vars

(***************************************************************************)
(* The round trip through the cache file                                   *)
(***************************************************************************)

\* "a", newline, "b": a text of two lines
T_two_lines == <<"a", "\n", "b">>
\* the quoted token "nt" (with its double quotes)
T_quoted_nt == <<"\"", "n", "t", "\"">>
\* a backslash followed by the letter n
T_backslash_n == <<"\\", "n">>

RtRecords ==
    {Record(1, is_pr, title, T_empty, comments) :
        is_pr \in BOOLEAN,
        title \in {T_fix_aix, T_two_lines, T_quoted_nt, T_backslash_n},
        comments \in {<<>>, <<T_two_lines, T_empty>>}}

\* the longest record list saved in the round trip
MaxRtRecords == 2

RtInit ==
    /\ ScanIdle
    /\ ValIdle
    /\ VerdictIdle
    /\ MainIdle
    /\ MatchIdle
    /\ CountIdle
    /\ TaskIdle
    /\ upstream = <<>>
    /\ cacheFile = AbsentFile
    /\ faultsLeft = 0
    /\ rtRecords \in UNION {[1..n -> RtRecords] : n \in 0..MaxRtRecords}
    /\ rtFile \in {AbsentFile, FileOf(FileText(<<Record(2, FALSE, T_aix, T_bug, <<>>)>>))}
    /\ rtSaved = "no"
    /\ rtLoaded = NotLoaded

\* save_repo_cache(owner_repo, records), the write succeeding or not
RtSave ==
    /\ rtSaved = "no"
    /\ \E io_ok \in BOOLEAN :
         /\ rtFile' = save_repo_cache(rtFile, rtRecords, io_ok)
         /\ rtSaved' = IF io_ok THEN "ok" ELSE "io_error"
    /\ UNCHANGED <<rtRecords, rtLoaded, scanVars, taskVars, fetchVars, reqVars,
                   valVars, verdictVars, mainVars,
                   matchVars, countVars>>

\* what can happen to a written cache file before the next run reads it
Damages ==
    {"first_line_cut", "last_line_cut", "final_newline_lost", "number_line_added",
     "blank_line_added", "undecodable_bytes_added"}

\* the characters of the file after the damage
Damaged(chars, damage) ==
    LET lines == SplitLines(chars)
        first == Len(lines[1])
    IN CASE damage = "first_line_cut" ->
                SubSeq(chars, 1, first - 1) \o SubSeq(chars, first + 1, Len(chars))
         [] damage = "last_line_cut" -> SubSeq(chars, 1, Len(chars) - 2)
         [] damage = "final_newline_lost" -> SubSeq(chars, 1, Len(chars) - 1)
         [] damage = "number_line_added" ->
                SubSeq(chars, 1, first + 1) \o <<"7", "\n">>
                \o SubSeq(chars, first + 2, Len(chars))
         [] damage = "blank_line_added" ->
                SubSeq(chars, 1, first + 1) \o <<" ", "\n">>
                \o SubSeq(chars, first + 2, Len(chars))
         [] damage = "undecodable_bytes_added" -> chars \o <<Undecodable, "\n">>

\* the written cache file is damaged between two runs of the program
RtDamage ==
    /\ rtSaved = "ok"
    /\ rtLoaded = NotLoaded
    /\ Len(rtRecords) > 0
    /\ \E damage \in Damages :
         /\ rtFile' = FileOf(Damaged(rtFile.content, damage))
         /\ rtSaved' = damage
    /\ UNCHANGED <<rtRecords, rtLoaded, scanVars, taskVars, fetchVars, reqVars,
                   valVars, verdictVars, mainVars,
                   matchVars, countVars>>

\* load_repo_cache(owner_repo) after the save
RtLoad ==
    /\ rtSaved # "no"
    /\ rtLoaded = NotLoaded
    /\ rtLoaded' = load_repo_cache(rtFile)
    /\ UNCHANGED <<rtRecords, rtFile, rtSaved, scanVars, taskVars, fetchVars, reqVars,
                   valVars, verdictVars, mainVars,
                   matchVars, countVars>>

RtNext == RtSave \/ RtDamage \/ RtLoad

SpecRoundTrip == RtInit /\ [][RtNext]_vars

(***************************************************************************)
(* SpecScan: sentence_level_artifact_scan applied to every issue made of   *)
(* the texts above                                                         *)
(***************************************************************************)

ScanInit ==
    /\ RtIdle
    /\ ValIdle
    /\ VerdictIdle
    /\ MainIdle
    /\ MatchIdle
    /\ CountIdle
    /\ TaskIdle
    /\ upstream = <<>>
    /\ cacheFile = AbsentFile
    /\ faultsLeft = 0
    /\ scanDetail \in [title : ScanTexts, body : ScanTexts]
    /\ scanComments \in CommentLists
    /\ scanEnriched = NotScanned

\* enriched = sentence_level_artifact_scan(owner_repo, detail, preloaded_comments)
Scan ==
    /\ scanEnriched = NotScanned
    /\ scanEnriched' = sentence_level_artifact_scan(scanDetail, scanComments)
    /\ UNCHANGED <<scanDetail, scanComments, rtVars, taskVars, fetchVars, reqVars,
                   valVars, verdictVars, mainVars,
                   matchVars, countVars>>

ScanNext == Scan

SpecScan == ScanInit /\ [][ScanNext]_vars

(***************************************************************************)
(* Properties of the scan (SpecScan)                                       *)
(***************************************************************************)

\* the texts of the scanned issue: title, body and every comment
ScannedTexts ==
    {scanDetail.title, scanDetail.body} \cup {scanComments[k] : k \in 1..Len(scanComments)}

\* the formatted keyword summary has an entry for bucket b
KeywordHasBucket(keyword, b) == \E k \in 1..Len(keyword) : keyword[k][1] = b

\* C5: every finding returned by the scan has an OS keyword and a FIX
\* keyword in its hit summary, and at least one single text of the issue
\* (title, body or one comment) passes sentence_level_cooccurrence.
C5_FindingPassedGate ==
    scanEnriched.kind = "finding" =>
        /\ KeywordHasBucket(scanEnriched.keyword, "OS")
        /\ KeywordHasBucket(scanEnriched.keyword, "FIX")
        /\ \E t \in ScannedTexts : sentence_level_cooccurrence(t)

\* a finding emitted in Phase 2, the gate being passed by a comment only
C5_Witness ==
    /\ scanEnriched.kind = "finding"
    /\ ScanPhase(scanDetail, scanComments) = 2
    /\ ~local_ok_tb(scanDetail)

\* C6 as stated: a finding emitted from title and body alone carries the
\* source tag "title+body".
C6_SourceIsTitlePlusBody ==
    (scanEnriched.kind = "finding" /\ ScanPhase(scanDetail, scanComments) = 1)
        => scanEnriched.source = "title+body"

\* C6 amended: a finding emitted from title and body alone carries the
\* contributing sections among title and body joined in sorted order:
\* "body+title" when both have a keyword hit, "title" or "body" when only
\* that one has; "comment" is never part of it.
C6_SourceOfPhase1 ==
    (scanEnriched.kind = "finding" /\ ScanPhase(scanDetail, scanComments) = 1)
        => LET th == DOMAIN match_concepts(scanDetail.title) # {}
               bh == DOMAIN match_concepts(scanDetail.body) # {}
           IN /\ (th \/ bh)
              /\ (th /\ bh) => scanEnriched.source = "body+title"
              /\ (th /\ ~bh) => scanEnriched.source = "title"
              /\ (~th /\ bh) => scanEnriched.source = "body"

\* a Phase 1 finding to which both the title and the body contribute, for
\* an issue that has comments
C6_Witness ==
    /\ scanEnriched.kind = "finding"
    /\ ScanPhase(scanDetail, scanComments) = 1
    /\ scanEnriched.source = "body+title"
    /\ Len(scanComments) > 0

\* the source tags that have "comment" among their '+'-joined parts
TagsWithComment ==
    {JoinPlus(SortedParts(S)) : S \in {P \in SUBSET {"title", "body", "comment"} : "comment" \in P}}

\* C7: every finding emitted in Phase 2 has "comment" among the parts of
\* its source tag.
C7_Phase2HasComment ==
    (scanEnriched.kind = "finding" /\ ScanPhase(scanDetail, scanComments) = 2)
        => scanEnriched.source \in TagsWithComment

\* a Phase 2 finding whose title passes the sentence gate on its own, the
\* comment supplying only the missing OS keyword
C7_Witness ==
    /\ scanEnriched.kind = "finding"
    /\ ScanPhase(scanDetail, scanComments) = 2
    /\ local_ok_tb(scanDetail)
    /\ scanEnriched.source = "comment+title"

(***************************************************************************)
(* Properties of the cache round trip (SpecRoundTrip)                      *)
(***************************************************************************)

C1_RetryWithoutRateLimit ==
    (reqPc # "network_error" /\ nRateLimited = 0) =>
        /\ reqAttempts <= 6
        /\ reqPc = "returned" => (reqAttempts = nFail + 1 /\ nFail <= 5 /\ lastStatus = 200)
        /\ nFail = 6 <=> reqPc = "raised"
        /\ reqPc = "raised" => (reqAttempts = 6 /\ lastStatus # 200)
        /\ failure = "transport" => errorStatus = lastStatus

\* a call that raised after six failures, and the error reached process_repo
C1_Witness ==
    /\ failure = "transport"
    /\ nRateLimited = 0
    /\ nFail = 6
    /\ errorStatus = 500

\* C2 as stated: a rate-limit response does not consume one of the six
\* attempts and is never surfaced as an error, so a call raises only after
\* six responses that are non-success and not rate-limit responses.
C2_RateLimitNotCounted ==
    reqPc = "raised" => nFail = 6

\* C3 as stated: a network failure aborts the repository task only after
\* the six attempts of the request are used up.
C3_NetworkFailureRetried ==
    failure = "network" => reqAttempts = 6

\* C4: every call of github_request makes at most six HTTP attempts, for
\* every mix of responses: while the call is waiting for a response fewer
\* than six attempts have been made, and every step of the call either
\* ends it (return or raise) or is one more attempt.
C4_RequestTerminates ==
    /\ [](reqAttempts <= 6 /\ (reqPc = "attempt" => reqAttempts < 6))
    /\ [][reqPc = "attempt" =>
            (reqPc' # "attempt" \/ reqAttempts' = reqAttempts + 1)]_vars

\* a call ended by the raise after a mix of rate-limit and other failures
C4_Witness ==
    /\ reqPc = "raised"
    /\ nRateLimited > 0
    /\ nFail > 0
    /\ reqAttempts = 6

\* the current run found a usable cache
RunIsCacheHit == pc # "idle" /\ load_repo_cache(cacheAtStart).hit

\* C9: on a cache hit process_repo issues no upstream request, does not
\* write the cache file, and its rows are those of the cached records.
C9_CacheHitNoFetch ==
    RunIsCacheHit =>
        /\ request_counter = 0
        /\ GLOBAL_REQUEST_COUNTER = 0
        /\ saved = "no"
        /\ cacheFile = cacheAtStart
        /\ pc = "done" => out = ScanRows(load_repo_cache(cacheAtStart).records)

\* a finished run on a cache hit with a row, the tracker having no issue
C9_Witness ==
    /\ RunIsCacheHit
    /\ pc = "done"
    /\ Len(out) > 0
    /\ upstream = <<>>

\* C10: two runs of process_repo in a row on a cached record set return
\* identical row lists, and the cache file is the same before and after
\* each of them.
C10_Idempotent ==
    (pc = "done" /\ RunIsCacheHit /\ prev.valid /\ prev.hit) =>
        /\ out = prev.rows
        /\ cacheFile = cacheAtStart
        /\ cacheAtStart = prev.cacheAtStart

\* the second of two runs on a cache of two records that give two rows
C10_Witness ==
    /\ pc = "done"
    /\ RunIsCacheHit
    /\ prev.valid
    /\ prev.hit
    /\ Len(out) = 2

\* the elements of a sequence
Range(seq) == {seq[i] : i \in 1..Len(seq)}

\* C20: pull requests are excluded everywhere: no fetched record and no
\* record saved by the fetch is a pull request, no comment listing is
\* requested for a pull request, and no row has the number of a pull
\* request among the scanned records.
C20_NoPullRequests ==
    /\ \A i \in 1..Len(fetched_records) : ~fetched_records[i].issue.pull_request
    /\ saved = "ok" =>
         \A rec \in Range(load_repo_cache(cacheFile).records) : ~rec.issue.pull_request
    /\ (pc = "fetch" /\ reqUrl = "comments") =>
         (~curDetail.pull_request /\ curDetail.number > 0)
    /\ \A i \in 1..Len(out) : \A rec \in Range(records) :
         rec.issue.number = out[i].number => ~rec.issue.pull_request

\* a finished fetch of a listing with a pull request that has comments and
\* would be a finding, with the records saved and a row emitted
C20_Witness ==
    /\ pc = "done"
    /\ failure = "none"
    /\ saved = "ok"
    /\ Len(out) > 0
    /\ \E i \in 1..Len(upstream) :
         /\ upstream[i].pull_request
         /\ upstream[i].comments > 0
         /\ sentence_level_artifact_scan(upstream[i], <<>>) # NoFinding

(***************************************************************************)
(* call_openai_analyze: the verdict of the validation service              *)
(***************************************************************************)

UpperLetters == <<"A", "B", "C", "D", "E", "F", "G", "H", "I", "J", "K", "L", "M",
                  "N", "O", "P", "Q", "R", "S", "T", "U", "V", "W", "X", "Y", "Z">>

LowerLetters == <<"a", "b", "c", "d", "e", "f", "g", "h", "i", "j", "k", "l", "m",
                  "n", "o", "p", "q", "r", "s", "t", "u", "v", "w", "x", "y", "z">>

\* str.lower, character by character
LowerChar(c) ==
    IF \E i \in 1..Len(UpperLetters) : UpperLetters[i] = c
    THEN LowerLetters[CHOOSE i \in 1..Len(UpperLetters) : UpperLetters[i] = c]
    ELSE c

LowerText(text) == [i \in 1..Len(text) |-> LowerChar(text[i])]

T_Yes == <<"Y", "e", "s">>
T_No == <<"N", "o">>
T_0 == <<"0">>

\* "Yes" if str(value).strip().lower().startswith("y") else "No"
\* (lines 563-564)
YesNo(value) ==
    LET t == LowerText(Strip(value))
    IN IF Len(t) > 0 /\ t[1] = "y" THEN T_Yes ELSE T_No

\* str.isdigit on ASCII text: not empty and only digits
IsDigitText(text) ==
    Len(text) > 0 /\ \A i \in 1..Len(text) : DigitIndex(text[i]) > 0

\* int(s) of a digit text
RECURSIVE ToInt(_)
ToInt(text) ==
    IF Len(text) = 0 THEN 0
    ELSE ToInt(SubSeq(text, 1, Len(text) - 1)) * 10 + (DigitIndex(text[Len(text)]) - 1)

\* str(n) of a natural number
RECURSIVE DecimalText(_)
DecimalText(n) ==
    IF n < 10 THEN <<DigitChars[n + 1]>>
    ELSE DecimalText(n \div 10) \o <<DigitChars[(n % 10) + 1]>>

\* the largest confidence (line 565)
ConfidenceCap == 100

\* a confidence without the clamp
Confidence_Unclamped(value) ==
    LET t == Strip(value)
    IN DecimalText(IF IsDigitText(t) THEN ToInt(t) ELSE 0)

\* str(min(100, max(0, v))) with v the integer of the stripped value when it
\* is a digit text, else 0 (lines 565-567)
Confidence(value) ==
    LET t == Strip(value)
        v == IF IsDigitText(t) THEN ToInt(t) ELSE 0
    IN DecimalText(IF v > ConfidenceCap THEN ConfidenceCap ELSE IF v < 0 THEN 0 ELSE v)

\* str.split(): the maximal runs of non-whitespace characters
RECURSIVE SplitWords(_, _)
SplitWords(text, word) ==
    IF Len(text) = 0 THEN (IF Len(word) = 0 THEN <<>> ELSE <<word>>)
    ELSE IF text[1] \in Whitespace
    THEN (IF Len(word) = 0 THEN <<>> ELSE <<word>>) \o SplitWords(Tail(text), <<>>)
    ELSE SplitWords(Tail(text), Append(word, text[1]))

\* " ".join(words)
RECURSIVE JoinWords(_)
JoinWords(words) ==
    IF Len(words) = 0 THEN <<>>
    ELSE IF Len(words) = 1 THEN words[1]
    ELSE words[1] \o <<" ">> \o JoinWords(Tail(words))

\* the word limit of the summary (line 559)
SummaryWords == 10

\* the summary cut to its first words (lines 557-559)
Summary10(value) ==
    LET words == SplitWords(Strip(value), <<>>)
    IN JoinWords(SubSeq(words, 1, IF Len(words) < SummaryWords THEN Len(words)
                                                              ELSE SummaryWords))

\* a member of the model's JSON object: absent, or the text str() gives
\* for its value
AbsentMember == [present |-> FALSE, text |-> <<>>]
Member(text) == [present |-> TRUE, text |-> text]

\* parsed.get(key, default) followed by str()
GetMember(member, default) == IF member.present THEN member.text ELSE default

\* the verdict built from a parsed JSON object (lines 557-568)
Verdict(members) ==
    [ai_issue_summary |-> Summary10(GetMember(members.ai_issue_summary, <<>>)),
     ai_is_os_portability |-> YesNo(GetMember(members.ai_is_os_portability, T_No)),
     ai_is_fix_merged |-> YesNo(GetMember(members.ai_is_fix_merged, T_No)),
     ai_confidence_pct |-> Confidence(GetMember(members.ai_confidence_pct, T_0))]

\* the conservative defaults of lines 575-580
fallback ==
    [ai_issue_summary |-> <<>>, ai_is_os_portability |-> T_No,
     ai_is_fix_merged |-> T_No, ai_confidence_pct |-> T_0]

\* what lines 555-566 raise on the message content: json.loads raises on
\* text that is not JSON, parsed.get on a JSON value that is not an object
ParseError(content) ==
    CASE content.json = "invalid" -> "JSONDecodeError"
      [] content.json \in {"array", "string", "number", "null"} -> "AttributeError"
      [] OTHER -> "none"

\* an except clause for the decoder's error only
FallbackCatches_DecodeOnly(error) == error = "JSONDecodeError"

\* except Exception (line 573)
FallbackCatches(error) == TRUE

\* a status check that lets every response through
StatusIsError_Never(status) == FALSE

\* resp.status_code >= 300 (line 547)
StatusIsError(status) == status >= 300

Raised(error) == [called |-> TRUE, raised |-> TRUE, error |-> error, fields |-> NoAiFields]
Returned(fields) == [called |-> TRUE, raised |-> FALSE, error |-> "none", fields |-> fields]

\* call_openai_analyze (lines 490-584) on the reply of the service: the
\* request raises (line 540), the status is an error (line 548), the body
\* is not the JSON envelope (line 550), or the content is parsed
call_openai_analyze(reply) ==
    IF reply.exception # "none" THEN Raised(reply.exception)
    ELSE IF StatusIsError(reply.status) THEN Raised("RuntimeError")
    ELSE IF reply.envelope # "ok" THEN Raised("ValueError")
    ELSE LET error == ParseError(reply.content)
         IN IF error = "none" THEN Returned(Verdict(reply.content.members))
            ELSE IF FallbackCatches(error) THEN Returned(fallback)
            ELSE Raised(error)

\* the replies of the validation service
NoMembers ==
    [ai_issue_summary |-> AbsentMember, ai_is_os_portability |-> AbsentMember,
     ai_is_fix_merged |-> AbsentMember, ai_confidence_pct |-> AbsentMember]

\* eleven words
T_eleven_words ==
    <<"a", " ", "b", " ", "c", " ", "d", " ", "e", " ", "f", " ", "g", " ", "h", " ",
      "i", " ", "j", " ", "k">>
\* two words with blanks around and between them
T_spaced == <<" ", "a", " ", " ", "b", "\n">>
T_yes_lower == <<" ", "y", "e", "s">>
T_True == <<"T", "r", "u", "e">>
T_85 == <<"8", "5">>
T_150 == <<"1", "5", "0">>
T_007 == <<"0", "0", "7">>
T_minus5 == <<"-", "5">>

SummaryMembers ==
    {AbsentMember, Member(T_empty), Member(T_fix_aix), Member(T_eleven_words),
     Member(T_spaced)}
FlagMembers ==
    {AbsentMember, Member(T_Yes), Member(T_yes_lower), Member(T_No), Member(T_True)}
ConfidenceMembers ==
    {AbsentMember, Member(T_85), Member(T_150), Member(T_007), Member(T_minus5),
     Member(T_fix_aix), Member(T_empty)}

ObjectContents ==
    {[json |-> "object", members |-> m] :
        m \in [ai_issue_summary : SummaryMembers, ai_is_os_portability : FlagMembers,
               ai_is_fix_merged : {AbsentMember, Member(T_Yes), Member(T_No)},
               ai_confidence_pct : ConfidenceMembers]}

\* message contents that are not a JSON object
MalformedContents ==
    {[json |-> k, members |-> NoMembers] :
        k \in {"invalid", "array", "string", "number", "null"}}

Reply(exception, status, envelope, content) ==
    [exception |-> exception, status |-> status, envelope |-> envelope, content |-> content]

\* the request raised, the status is an error, or the body is no envelope
FailedReplies ==
    {Reply(e, 0, "none", [json |-> "none", members |-> NoMembers]) :
        e \in {"ConnectionError", "Timeout"}}
    \cup {Reply("none", st, "ok", c) : st \in {429, 500}, c \in MalformedContents}
    \cup {Reply("none", 200, "not_json", [json |-> "none", members |-> NoMembers])}

VerdictReplies ==
    FailedReplies
    \cup {Reply("none", 200, "ok", c) : c \in ObjectContents \cup MalformedContents}

VerdictInit ==
    /\ ScanIdle
    /\ RtIdle
    /\ TaskIdle
    /\ upstream = <<>>
    /\ cacheFile = AbsentFile
    /\ faultsLeft = 0
    /\ ValIdle
    /\ MainIdle
    /\ MatchIdle
    /\ CountIdle
    /\ vdReply \in VerdictReplies
    /\ vdResult = NotCalled

\* one call of call_openai_analyze
Analyze ==
    /\ vdResult = NotCalled
    /\ vdResult' = call_openai_analyze(vdReply)
    /\ UNCHANGED <<vdReply, scanVars, rtVars, taskVars, fetchVars, reqVars, valVars, mainVars,
                   matchVars, countVars>>

VerdictNext == Analyze

SpecVerdict == VerdictInit /\ [][VerdictNext]_vars

\* the message content of a success response is not a JSON object
ContentMalformed(reply) ==
    /\ reply.exception = "none"
    /\ reply.status = 200
    /\ reply.envelope = "ok"
    /\ reply.content.json \in {"invalid", "array", "string", "number", "null"}

\* C16: when the service answers with a success status and the message
\* content is not a JSON object, call_openai_analyze does not raise and
\* returns the default verdict: summary "", portability "No", fix-merged
\* "No", confidence "0".
C16_MalformedGivesDefault ==
    (vdResult # NotCalled /\ ContentMalformed(vdReply)) =>
        /\ ~vdResult.raised
        /\ vdResult.fields.ai_issue_summary = <<>>
        /\ vdResult.fields.ai_is_os_portability = <<"N", "o">>
        /\ vdResult.fields.ai_is_fix_merged = <<"N", "o">>
        /\ vdResult.fields.ai_confidence_pct = <<"0">>

\* the call returned on a content that is JSON but not an object
C16_Witness ==
    /\ vdResult # NotCalled
    /\ ContentMalformed(vdReply)
    /\ vdReply.content.json = "array"
    /\ ~vdResult.raised

(***************************************************************************)
(* The scan loop of process_repo with the validation gate (lines 721-777)  *)
(***************************************************************************)

\* a cache line that holds a JSON number: json.loads (line 258) gives a
\* value that is not a dict, and rec.get (line 724) raises on it
ScalarRecord == [scalar |-> 7]

IsDict(rec) == "issue" \in DOMAIN rec

\* a cache line whose issue object holds a title and a body and neither
\* "number" nor "html_url": detail.get gives None for both (lines 743, 762,
\* 764)
BareRecord ==
    [issue |-> [number |-> NoneNumber, html_url |-> NoneText, pull_request |-> FALSE,
                comments |-> 0, title |-> T_fix_aix, body |-> T_empty],
     comments |-> <<>>]

\* int(detail.get("number")) (line 743) raises for None
PromptRaises(detail) == detail.number = NoneNumber

\* the records the loop is run on
ValRecords ==
    {Record(1, FALSE, T_fix_aix, T_empty, <<>>),
     Record(2, FALSE, T_bug, T_aix, Thread(2)),
     Record(3, TRUE, T_fix_aix, T_empty, Thread(3)),
     Record(4, FALSE, T_fix_dot_aix, T_empty, <<>>),
     ScalarRecord,
     BareRecord}

\* the longest record list of the loop
MaxValRecords == 2

ValRecordLists == UNION {[1..n -> ValRecords] : n \in 0..MaxValRecords}

\* the replies of the validation service met in the loop
ScanReplies ==
    {Reply("ConnectionError", 0, "none", [json |-> "none", members |-> NoMembers]),
     Reply("Timeout", 0, "none", [json |-> "none", members |-> NoMembers]),
     Reply("none", 500, "ok", [json |-> "invalid", members |-> NoMembers]),
     Reply("none", 200, "ok", [json |-> "invalid", members |-> NoMembers]),
     Reply("none", 200, "ok", [json |-> "array", members |-> NoMembers]),
     Reply("none", 200, "ok", [json |-> "object", members |-> NoMembers]),
     Reply("none", 200, "ok",
           [json |-> "object",
            members |-> [ai_issue_summary |-> Member(T_fix_aix),
                         ai_is_os_portability |-> Member(T_Yes),
                         ai_is_fix_merged |-> Member(T_Yes),
                         ai_confidence_pct |-> Member(T_85)]]),
     Reply("none", 200, "ok",
           [json |-> "object",
            members |-> [ai_issue_summary |-> Member(T_fix_aix),
                         ai_is_os_portability |-> Member(T_No),
                         ai_is_fix_merged |-> Member(T_Yes),
                         ai_confidence_pct |-> Member(T_85)]])}

\* validation fields that fall back to the default verdict when the call
\* raises
AiFieldsAfter_Fallback(result) == IF result.raised THEN fallback ELSE result.fields

\* ai_fields after the try of lines 742-754: the value of line 739 when the
\* call raised, else what the call returned
AiFieldsAfter(result) == IF result.raised THEN NoAiFields ELSE result.fields

\* a call counted when it is made, whether it returns or raises
AiCallsAfter_Always(result, n) == n + 1

\* ai_calls += 1 (line 751) is reached when the call returned
AiCallsAfter(result, n) == IF result.raised THEN n ELSE n + 1

\* a row emitted only for a verdict other than portability "No"
RowEmitted_IfPortable(result) ==
    result.raised \/ result.fields.ai_is_os_portability # T_No

\* out.append (line 757) follows the validation whatever its result
RowEmitted(result) == TRUE

\* the row of a finding with its validation fields (lines 757-770)
RowWith(detail, enriched, ai_fields) == [Row(detail, enriched) EXCEPT !.ai = ai_fields]

ValInit ==
    /\ ScanIdle
    /\ RtIdle
    /\ TaskIdle
    /\ upstream = <<>>
    /\ cacheFile = AbsentFile
    /\ faultsLeft = 0
    /\ VerdictIdle
    /\ MainIdle
    /\ MatchIdle
    /\ CountIdle
    /\ vRecords \in ValRecordLists
    /\ ai_token \in BOOLEAN
    /\ vNext = 1
    /\ valOut = <<>>
    /\ ai_calls = 0
    /\ ai_errors = 0
    /\ ai_requests = 0
    /\ vFailure = "none"
    /\ vPc = "scan"
    /\ aiReply = NoReply

\* one iteration of the loop of line 723
ScanRecord ==
    /\ vPc = "scan"
    /\ vNext <= Len(vRecords)
    /\ LET rec == vRecords[vNext]
       IN IF ~IsDict(rec)
          THEN \* rec.get raises (line 724); the except of line 773 ends the task
               /\ vFailure' = "scan"
               /\ vPc' = "done"
               /\ aiReply' = NoReply
               /\ UNCHANGED <<vNext, valOut, ai_calls, ai_errors, ai_requests>>
          ELSE LET detail == rec.issue
                   enriched == sentence_level_artifact_scan(detail, rec.comments)
               IN /\ vNext' = vNext + 1
                  /\ UNCHANGED <<vFailure, vPc>>
                  /\ IF IsPullRequest(detail) \/ enriched = NoFinding
                     THEN /\ aiReply' = NoReply
                          /\ UNCHANGED <<valOut, ai_calls, ai_errors, ai_requests>>
                     ELSE IF ~ai_token
                     THEN /\ valOut' = Append(valOut, RowWith(detail, enriched, NoAiFields))
                          /\ aiReply' = NoReply
                          /\ UNCHANGED <<ai_calls, ai_errors, ai_requests>>
                     ELSE IF PromptRaises(detail)
                     THEN \* build_ai_prompt is not reached: the except of line
                          \* 752 counts an error and no request is made
                          /\ valOut' = Append(valOut, RowWith(detail, enriched, NoAiFields))
                          /\ ai_errors' = ai_errors + 1
                          /\ aiReply' = NoReply
                          /\ UNCHANGED <<ai_calls, ai_requests>>
                     ELSE \E reply \in ScanReplies :
                            LET result == call_openai_analyze(reply)
                            IN /\ aiReply' = reply
                               /\ ai_requests' = ai_requests + 1
                               /\ ai_calls' = AiCallsAfter(result, ai_calls)
                               /\ ai_errors' = IF result.raised THEN ai_errors + 1
                                               ELSE ai_errors
                               /\ valOut' = IF RowEmitted(result)
                                            THEN Append(valOut,
                                                   RowWith(detail, enriched,
                                                           AiFieldsAfter(result)))
                                            ELSE valOut
    /\ UNCHANGED <<vRecords, ai_token, scanVars, rtVars, taskVars, fetchVars, reqVars,
                   verdictVars, mainVars,
                   matchVars, countVars>>

\* the loop is over and process_repo returns (lines 776-777)
ScanReturns ==
    /\ vPc = "scan"
    /\ vNext > Len(vRecords)
    /\ vPc' = "done"
    /\ aiReply' = NoReply
    /\ UNCHANGED <<vRecords, ai_token, vNext, valOut, ai_calls, ai_errors, ai_requests,
                   vFailure, scanVars, rtVars, taskVars, fetchVars, reqVars,
                   verdictVars, mainVars,
                   matchVars, countVars>>

ValNext == ScanRecord \/ ScanReturns

SpecValidate == ValInit /\ [][ValNext]_vars

\* the validation call failed at the network or HTTP level
CallFails(reply) == reply.exception # "none" \/ reply.status >= 300

\* the last row of the task
LastRow == valOut[Len(valOut)]

\* C12 as stated: a task aborted by an exception, during the scan as well
\* as during the fetch, contributes no row.
C12_FailedTaskNoRows ==
    vFailure # "none" => valOut = <<>>

C18_FailureGivesDefault ==
    (aiReply # NoReply /\ CallFails(aiReply) /\ Len(valOut) > 0) =>
        /\ LastRow.ai.ai_is_os_portability = <<"N", "o">>
        /\ LastRow.ai.ai_is_fix_merged = <<"N", "o">>
        /\ LastRow.ai.ai_confidence_pct = <<"0">>

\* C18: after a validation call that fails or times out the row carries
\* empty validation fields; a row of the default verdict comes from a call
\* that returned with a success status.
C18_FailureGivesEmpty ==
    /\ (aiReply # NoReply /\ CallFails(aiReply)) =>
          (Len(valOut) > 0 /\ LastRow.ai = NoAiFields)
    /\ (aiReply # NoReply /\ Len(valOut) > 0 /\ LastRow.ai = fallback) =>
          (aiReply.exception = "none" /\ aiReply.status = 200)

\* a row emitted after an error status of the validation service
C18_Witness ==
    /\ aiReply.status = 500
    /\ Len(valOut) > 0
    /\ LastRow.ai = NoAiFields

\* what identifies the finding of a row
Emitted(rows) ==
    [i \in 1..Len(rows) |->
        <<rows[i].repository, rows[i].number, rows[i].source, rows[i].keyword>>]

\* C19: the rows emitted so far are, finding for finding, those the loop
\* emits with validation disabled on the records handled so far, whatever
\* the validation service replied.
C19_ValidationNeverFilters ==
    Emitted(valOut) = Emitted(ScanRows(SubSeq(vRecords, 1, vNext - 1)))

\* a finished task with validation enabled whose first finding got the
\* verdict portability "No" and whose second finding's call failed
C19_Witness ==
    /\ vPc = "done"
    /\ ai_token
    /\ Len(valOut) = 2
    /\ valOut[1].ai.ai_is_os_portability = T_No
    /\ valOut[2].ai = NoAiFields

(***************************************************************************)
(* main: the input list, the cache paths and the thread pool               *)
(***************************************************************************)

\* text holds pat at position i
HasAt(text, pat, i) ==
    /\ i + Len(pat) - 1 <= Len(text)
    /\ \A k \in 1..Len(pat) : text[i + k - 1] = pat[k]

\* str.startswith
StartsWith(text, pat) == HasAt(text, pat, 1)

\* str.split(sep): the pieces between the occurrences of sep, from the left
RECURSIVE SplitAt(_, _, _)
SplitAt(text, sep, piece) ==
    IF Len(text) = 0 THEN <<piece>>
    ELSE IF HasAt(text, sep, 1)
    THEN <<piece>> \o SplitAt(SubSeq(text, Len(sep) + 1, Len(text)), sep, <<>>)
    ELSE SplitAt(Tail(text), sep, Append(piece, text[1]))

\* str.strip("/")
RECURSIVE StripSlash(_)
StripSlash(text) ==
    IF Len(text) = 0 THEN text
    ELSE IF text[1] = "/" THEN StripSlash(Tail(text))
    ELSE IF text[Len(text)] = "/" THEN StripSlash(SubSeq(text, 1, Len(text) - 1))
    ELSE text

\* sep.join(pieces)
RECURSIVE JoinWith(_, _)
JoinWith(pieces, sep) ==
    IF Len(pieces) = 0 THEN <<>>
    ELSE IF Len(pieces) = 1 THEN pieces[1]
    ELSE pieces[1] \o sep \o JoinWith(Tail(pieces), sep)

T_http == <<"h", "t", "t", "p">>
T_github == <<"g", "i", "t", "h", "u", "b", ".", "c", "o", "m", "/">>

\* "/".join(rest.split("/")[:2]) with rest = parts[1].strip("/")
\* (lines 299-300)
OwnerRepoOf(part) ==
    LET pieces == SplitAt(StripSlash(part), <<"/">>, <<>>)
    IN JoinWith(SubSeq(pieces, 1, IF Len(pieces) < 2 THEN Len(pieces) ELSE 2), <<"/">>)

\* what one row of the CSV adds to repos (lines 291-303)
ReposOfCell(rawCell) ==
    LET cell == Strip(rawCell)
    IN IF Len(cell) = 0 THEN <<>>
       ELSE IF StartsWith(cell, T_http)
       THEN LET parts == SplitAt(cell, T_github, <<>>)
            IN IF Len(parts) = 2 THEN <<OwnerRepoOf(parts[2])>> ELSE <<>>
       ELSE <<cell>>

\* read_input_csv (lines 279-304) on the first cells of the rows
RECURSIVE read_input_csv(_)
read_input_csv(cells) ==
    IF Len(cells) = 0 THEN <<>>
    ELSE ReposOfCell(cells[1]) \o read_input_csv(Tail(cells))

\* sanitize_repo (line 236): owner_repo.replace("/", "_")
sanitize_repo(owner_repo) ==
    [i \in 1..Len(owner_repo) |-> IF owner_repo[i] = "/" THEN "_" ELSE owner_repo[i]]

T_cache_issues ==
    <<"c", "a", "c", "h", "e", "/", "i", "s", "s", "u", "e", "s", "/">>
T_issues_jsonl ==
    <<"/", "i", "s", "s", "u", "e", "s", ".", "j", "s", "o", "n", "l">>

\* get_cache_paths (lines 239-242): the path of the cache file
get_cache_paths(owner_repo) == T_cache_issues \o sanitize_repo(owner_repo) \o T_issues_jsonl

\* the cells of the input CSV
T_a_b == <<"a", "/", "b">>
T_url_a_b ==
    <<"h", "t", "t", "p", "s", ":", "/", "/", "g", "i", "t", "h", "u", "b", ".", "c",
      "o", "m", "/", "a", "/", "b", "/", "i", "s", "s", "u", "e", "s", "/">>
T_url_other ==
    <<"h", "t", "t", "p", ":", "/", "/", "x", ".", "o", "r", "g", "/", "a", "/", "b">>
T_a_b_c == <<"a", "/", "b", "_", "c">>
T_a_b__c == <<" ", "a", "_", "b", "/", "c">>

Cells == {T_a_b, T_url_a_b, T_url_other, T_empty, T_a_b_c, T_a_b__c}

\* the number of rows of the longest input CSV
MaxCells == 2

InputFiles == UNION {[1..n -> Cells] : n \in 0..MaxCells}

\* the number of rows of a batch that is not empty
BatchRows == 2

\* the rows process_repo returns for the future i of a repository
Batch(owner_repo, i, n) == [k \in 1..n |-> [repository |-> owner_repo, future |-> i, k |-> k]]

\* what a task can end with: an exception that leaves process_repo, or a
\* row list, empty or not (line 777)
TaskOutcomes(owner_repo, i) ==
    {[raised |-> TRUE, rows |-> <<>>],
     [raised |-> FALSE, rows |-> <<>>],
     [raised |-> FALSE, rows |-> Batch(owner_repo, i, BatchRows)]}

NoOutcome == [raised |-> FALSE, rows |-> <<>>]

Futures == DOMAIN taskState

MainInit ==
    /\ ScanIdle
    /\ RtIdle
    /\ TaskIdle
    /\ upstream = <<>>
    /\ cacheFile = AbsentFile
    /\ faultsLeft = 0
    /\ ValIdle
    /\ VerdictIdle
    /\ MatchIdle
    /\ CountIdle
    /\ inputCells \in InputFiles
    /\ repos = read_input_csv(inputCells)
    /\ max_workers \in {1, 2}
    /\ taskState = <<>>
    /\ taskResult = <<>>
    /\ mainPc = "start"
    /\ batches = <<>>
    /\ curFuture = 0
    /\ curRows = <<>>
    /\ curWritten = 0
    /\ outputFile = <<>>
    /\ reports = <<>>
    /\ total_rows = 0
    /\ yielded = {}

\* lines 836-869, the list being read (line 835): an empty list ends the
\* run, else one task per entry is submitted to the pool
Submit ==
    /\ mainPc = "start"
    /\ IF Len(repos) = 0
       THEN /\ mainPc' = "no_repos"
            /\ UNCHANGED <<taskState, taskResult>>
       ELSE /\ mainPc' = "wait"
            /\ taskState' = [i \in 1..Len(repos) |-> "queued"]
            /\ taskResult' = [i \in 1..Len(repos) |-> NoOutcome]
    /\ UNCHANGED <<inputCells, repos, max_workers, batches, curFuture, curRows, curWritten,
                   outputFile, reports, total_rows, yielded,
                   scanVars, rtVars, taskVars, fetchVars, reqVars, valVars, verdictVars,
                   matchVars, countVars>>

\* a free worker thread takes the oldest queued task
TaskStart ==
    /\ \E i \in Futures :
         /\ taskState[i] = "queued"
         /\ \A j \in Futures : j < i => taskState[j] # "queued"
         /\ Cardinality({j \in Futures : taskState[j] = "running"}) < max_workers
         /\ taskState' = [taskState EXCEPT ![i] = "running"]
    /\ UNCHANGED <<inputCells, repos, max_workers, taskResult, mainPc, batches, curFuture,
                   curRows, curWritten, outputFile, reports, total_rows, yielded,
                   scanVars, rtVars, taskVars, fetchVars, reqVars, valVars, verdictVars,
                   matchVars, countVars>>

\* process_repo of a running task ends
TaskEnd ==
    /\ \E i \in Futures :
         /\ taskState[i] = "running"
         /\ \E o \in TaskOutcomes(repos[i], i) :
              /\ taskState' = [taskState EXCEPT ![i] = "finished"]
              /\ taskResult' = [taskResult EXCEPT ![i] = o]
    /\ UNCHANGED <<inputCells, repos, max_workers, mainPc, batches, curFuture, curRows,
                   curWritten, outputFile, reports, total_rows, yielded,
                   scanVars, rtVars, taskVars, fetchVars, reqVars, valVars, verdictVars,
                   matchVars, countVars>>

\* a handler that lets the exception of a task through
CatchesTaskError_Never == FALSE

\* except Exception around future.result() (lines 878-882)
CatchesTaskError == TRUE

\* a loop that takes the next future while a batch is being appended
LoopReady_Always(where) == where \in {"wait", "append"}

\* the body of the for loop of line 871 runs to its end before the next
\* future is taken
LoopReady(where) == where = "wait"

\* as_completed yields a finished future (line 871) and its result is read
\* (lines 872-882)
TakeCompleted ==
    /\ LoopReady(mainPc)
    /\ \E i \in Futures \ yielded :
         /\ taskState[i] = "finished"
         /\ yielded' = yielded \cup {i}
         /\ curFuture' = i
         /\ curWritten' = 0
         /\ IF taskResult[i].raised
            THEN /\ curRows' = <<>>
                 /\ mainPc' = IF CatchesTaskError THEN "append" ELSE "aborted"
            ELSE /\ curRows' = taskResult[i].rows
                 /\ mainPc' = "append"
    /\ UNCHANGED <<inputCells, repos, max_workers, taskState, taskResult, batches,
                   outputFile, reports, total_rows,
                   scanVars, rtVars, taskVars, fetchVars, reqVars, valVars, verdictVars,
                   matchVars, countVars>>

\* append_rows writes the next row of the batch (lines 326-329)
AppendRow ==
    /\ mainPc = "append"
    /\ curWritten < Len(curRows)
    /\ outputFile' = Append(outputFile, curRows[curWritten + 1])
    /\ curWritten' = curWritten + 1
    /\ UNCHANGED <<inputCells, repos, max_workers, taskState, taskResult, mainPc, batches,
                   curFuture, curRows, reports, total_rows, yielded,
                   scanVars, rtVars, taskVars, fetchVars, reqVars, valVars, verdictVars,
                   matchVars, countVars>>

\* append_rows returns (line 884)
AppendReturns ==
    /\ mainPc = "append"
    /\ curWritten = Len(curRows)
    /\ batches' = Append(batches, curFuture)
    /\ mainPc' = "report"
    /\ UNCHANGED <<inputCells, repos, max_workers, taskState, taskResult, curFuture,
                   curRows, curWritten, outputFile, reports, total_rows, yielded,
                   scanVars, rtVars, taskVars, fetchVars, reqVars, valVars, verdictVars,
                   matchVars, countVars>>

\* the "[done]" line of the repository (lines 885-889)
Report ==
    /\ mainPc = "report"
    /\ total_rows' = total_rows + Len(curRows)
    /\ reports' = Append(reports, curFuture)
    /\ mainPc' = "wait"
    /\ curFuture' = 0
    /\ curRows' = <<>>
    /\ curWritten' = 0
    /\ UNCHANGED <<inputCells, repos, max_workers, taskState, taskResult, batches,
                   outputFile, yielded,
                   scanVars, rtVars, taskVars, fetchVars, reqVars, valVars, verdictVars,
                   matchVars, countVars>>

\* as_completed is exhausted and the summary is printed (lines 891-893)
Finish ==
    /\ mainPc = "wait"
    /\ yielded = Futures
    /\ mainPc' = "finished"
    /\ UNCHANGED <<inputCells, repos, max_workers, taskState, taskResult, batches,
                   curFuture, curRows, curWritten, outputFile, reports, total_rows,
                   yielded,
                   scanVars, rtVars, taskVars, fetchVars, reqVars, valVars, verdictVars,
                   matchVars, countVars>>

MainNext ==
    \/ Submit
    \/ TaskStart
    \/ TaskEnd
    \/ TakeCompleted
    \/ AppendRow
    \/ AppendReturns
    \/ Report
    \/ Finish

SpecMain == MainInit /\ [][MainNext]_vars

\* the pool runs every task it was given, every task ends, and the main
\* thread goes on
SpecMainFair == MainInit /\ [][MainNext]_vars /\ WF_vars(MainNext)

\* how many times x occurs in a sequence
CountIn(seq, x) == Cardinality({p \in 1..Len(seq) : seq[p] = x})

\* the rows of the output file that come from the future i
RowsOf(i) == SelectSeq(outputFile, LAMBDA row : row.future = i)

\* the rows main takes from the future i (lines 879-882)
RowsTaken(i) == IF taskResult[i].raised THEN <<>> ELSE taskResult[i].rows

\* C11: an exception of a task never aborts the run; no task gets more
\* than one batch or report; when the summary is reached every submitted
\* task has exactly one batch appended (its rows, none if it raised) and
\* exactly one report; and once the tasks are submitted the run reaches
\* its summary, in every completion order.
C11_SiblingIsolation ==
    /\ [](mainPc # "aborted")
    /\ [](\A i \in Futures : CountIn(batches, i) <= 1 /\ CountIn(reports, i) <= 1)
    /\ [](mainPc = "finished" =>
            /\ Futures = 1..Len(repos)
            /\ \A i \in Futures :
                 /\ CountIn(batches, i) = 1
                 /\ CountIn(reports, i) = 1
                 /\ RowsOf(i) = RowsTaken(i))
    /\ (mainPc = "wait") ~> (mainPc = "finished")

\* a finished run of two tasks: the first raised, the second completed
\* before it and has its rows in the output
C11_Witness ==
    /\ mainPc = "finished"
    /\ Len(repos) = 2
    /\ taskResult[1].raised
    /\ reports = <<2, 1>>
    /\ Len(RowsOf(2)) > 0

\* the batches of a sequence of futures, one after the other
RECURSIVE RowsWritten(_)
RowsWritten(fs) ==
    IF Len(fs) = 0 THEN <<>> ELSE RowsTaken(fs[1]) \o RowsWritten(Tail(fs))

\* C13: the output file is the whole batches of the append_rows calls that
\* returned, in call order, followed by the rows written so far of the one
\* batch being appended; the rows of a task are contiguous.
C13_WritesSerialized ==
    /\ outputFile = RowsWritten(batches)
                      \o (IF mainPc = "append" THEN SubSeq(curRows, 1, curWritten)
                                               ELSE <<>>)
    /\ \A p, q, r \in 1..Len(outputFile) :
         (p < q /\ q < r /\ outputFile[p].future = outputFile[r].future)
            => outputFile[q].future = outputFile[p].future

\* a batch half written while a worker thread runs another task
C13_Witness ==
    /\ mainPc = "append"
    /\ curWritten = 1
    /\ Len(curRows) > 1
    /\ \E j \in Futures : taskState[j] = "running"

\* C14 as stated: a repository is scheduled at most once per run, so no two
\* running tasks are tasks of the same repository.
C14_ScheduledOnce ==
    \A i, j \in Futures :
        (i # j /\ taskState[i] = "running" /\ taskState[j] = "running")
            => repos[i] # repos[j]

\* C15 as stated: the tasks of two different repository identifiers have
\* different cache file paths.
C15_PathsPartitioned ==
    \A i, j \in Futures :
        repos[i] # repos[j] => get_cache_paths(repos[i]) # get_cache_paths(repos[j])

(***************************************************************************)
(* The order of the rows of one task                                       *)
(***************************************************************************)

\* a is b with some elements left out, the others in the order of b
RECURSIVE IsSubsequence(_, _)
IsSubsequence(a, b) ==
    IF Len(a) = 0 THEN TRUE
    ELSE IF Len(b) = 0 THEN FALSE
    ELSE IF a[1] = b[1] THEN IsSubsequence(Tail(a), Tail(b))
    ELSE IsSubsequence(a, Tail(b))

\* the issue numbers of a list of records, of items or of rows
RecordNumbers(recs) == [i \in 1..Len(recs) |-> recs[i].issue.number]
ItemNumbers(items) == [i \in 1..Len(items) |-> items[i].number]

\* C21: the rows a repository task returns are a subsequence of the
\* records it scanned, which are the lines of the cache file on a hit and
\* a subsequence of the upstream listing on a fetch: at most one row per
\* record, in the order of the records.
C21_RowsInListingOrder ==
    /\ IsSubsequence(ItemNumbers(out), RecordNumbers(records))
    /\ pc \in {"fetch", "scan", "done"} /\ ~cached.hit
         => /\ IsSubsequence(RecordNumbers(fetched_records), ItemNumbers(upstream))
            /\ pc # "fetch" /\ failure = "none" => records = fetched_records
    /\ pc \in {"scan", "done"} /\ cached.hit => records = cached.records

\* C21: a fetch of two issues has ended with the rows of both
C21_Witness ==
    /\ pc = "done"
    /\ ~cached.hit
    /\ Len(upstream) = 2
    /\ Len(out) = 2

(***************************************************************************)
(* The matcher on its own: match_concepts and sentence_level_cooccurrence  *)
(* applied to one text                                                     *)
(***************************************************************************)

\* the pieces the texts are made of: keywords in lower and upper case, the
\* letters that turn "arch" into "search", a fragment separator, a blank,
\* an underscore, a double quote and a newline
MatchPieces ==
    {<<"f", "i", "x">>, <<"A", "I", "X">>, <<"a", "r", "c", "h">>, <<"s", "e">>,
     <<".", "s", "o">>, <<"n", "t">>, <<" ", "n", "t">>, <<".">>, <<" ">>, <<"_">>,
     <<"\"">>, <<"\n">>}

\* the largest number of pieces of a text
MaxPieces == 3

\* the pieces of a list, one after the other
RECURSIVE Flatten(_)
Flatten(pieces) ==
    IF Len(pieces) = 0 THEN <<>> ELSE pieces[1] \o Flatten(Tail(pieces))

MatchTexts == {Flatten(ps) : ps \in UNION {[1..n -> MatchPieces] : n \in 0..MaxPieces}}

MatchInit ==
    /\ ScanIdle
    /\ RtIdle
    /\ TaskIdle
    /\ upstream = <<>>
    /\ cacheFile = AbsentFile
    /\ faultsLeft = 0
    /\ ValIdle
    /\ VerdictIdle
    /\ MainIdle
    /\ CountIdle
    /\ mText \in MatchTexts
    /\ mHits = NotMatched
    /\ mCooccurs = NotMatched

\* hits = match_concepts(text) and sentence_level_cooccurrence(text), as
\* the scan calls them on one text (lines 611-613)
Match ==
    /\ mHits = NotMatched
    /\ mHits' = match_concepts(mText)
    /\ mCooccurs' = sentence_level_cooccurrence(mText)
    /\ UNCHANGED <<mText, scanVars, rtVars, taskVars, fetchVars, reqVars, valVars,
                   verdictVars, mainVars, countVars>>

MatchNext == Match

SpecMatch == MatchInit /\ [][MatchNext]_vars

\* the characters at which a text is cut into fragments
SentenceEnds == {".", "!", "?", "\n"}

\* positions i..j of text hold a non-empty fragment: no separator inside,
\* and a separator or an end of the text on each side
IsFragment(text, i, j) ==
    /\ 1 <= i /\ i <= j /\ j <= Len(text)
    /\ \A k \in i..j : text[k] \notin SentenceEnds
    /\ i = 1 \/ text[i - 1] \in SentenceEnds
    /\ j = Len(text) \/ text[j + 1] \in SentenceEnds

\* some fragment of the text holds an OS keyword and a FIX keyword
PairInOneFragment(text) ==
    \E i, j \in 1..Len(text) :
        /\ IsFragment(text, i, j)
        /\ FoundIn("OS", SubSeq(text, i, j)) # {}
        /\ FoundIn("FIX", SubSeq(text, i, j)) # {}

\* C22: sentence_level_cooccurrence(text) is true exactly when one
\* non-empty fragment of the text, cut at '.', '!', '?' and newline, holds
\* by itself an OS keyword and a FIX keyword; a text whose OS and FIX
\* keywords are all in different fragments is rejected.
C22_GateIsPerFragment ==
    mHits # NotMatched => (mCooccurs <=> PairInOneFragment(mText))

\* C22: a text with both buckets in its whole-text hits has been rejected
\* because no fragment holds the pair
C22_Witness ==
    /\ mHits # NotMatched
    /\ has_os_and_fix(mHits)
    /\ mCooccurs = FALSE

\* the characters [A-Za-z0-9_] of the texts
IsWordChar(c) == c \in Alnum \/ c = "_"

\* keyword kw occurs at position i of text, in any case
OccursAt(kw, text, i) ==
    /\ i + Len(KwChars(kw)) - 1 <= Len(text)
    /\ \A j \in 1..Len(KwChars(kw)) : Lower(text[i + j - 1]) = KwChars(kw)[j]

\* the occurrence of kw at i has no word character right before it
FreeOnLeft(kw, text, i) == i = 1 \/ ~IsWordChar(text[i - 1])

\* the occurrence of kw at i has no word character right after it
FreeOnRight(kw, text, i) ==
    i + Len(KwChars(kw)) - 1 = Len(text) \/ ~IsWordChar(text[i + Len(KwChars(kw))])

\* the keywords of the tables that start and end with an alphanumeric
\* character, and those that start with punctuation
AlnumKeywords == {"aix", "arch", "fix", "bug", "ci", "os.sep"}
PunctLedKeywords == {".so"}

\* C23: a keyword that starts and ends with an alphanumeric character is
\* reported only for an occurrence with no word character directly before
\* or after it; a keyword that starts with punctuation is reported for any
\* occurrence, whatever precedes it; a bucket key is present in the result
\* only with at least one reported keyword of that bucket.
C23_BoundaryRule ==
    mHits # NotMatched =>
        /\ \A b \in Buckets : \A kw \in CONCEPTS[b] \cap AlnumKeywords :
             kw \in HitsGet(mHits, b) <=>
                \E i \in 1..Len(mText) :
                    OccursAt(kw, mText, i) /\ FreeOnLeft(kw, mText, i)
                    /\ FreeOnRight(kw, mText, i)
        /\ \A b \in Buckets : \A kw \in CONCEPTS[b] \cap PunctLedKeywords :
             kw \in HitsGet(mHits, b) <=>
                \E i \in 1..Len(mText) :
                    OccursAt(kw, mText, i) /\ FreeOnRight(kw, mText, i)
        /\ \A b \in DOMAIN mHits :
             /\ mHits[b] # {}
             /\ mHits[b] \subseteq CONCEPTS[b] \cup {"nt"}
        /\ \A kw \in UNION {CONCEPTS[b] : b \in Buckets} :
             kw \in AlnumKeywords <=> kw \notin PunctLedKeywords

\* C23: "search" has been matched and "arch" is not reported, and
\* "arch.so" would have both
C23_Witness ==
    /\ mText = <<"s", "e", "a", "r", "c", "h">>
    /\ mHits # NotMatched
    /\ "OS" \notin DOMAIN mHits

(***************************************************************************)
(* The delays of github_request                                            *)
(***************************************************************************)

\* the delays of six consecutive failures
BackoffSchedule == <<2, 4, 8, 16, 32, 60>>

\* C24: the delays slept by one call after its non-success responses that
\* are not rate-limit responses are 2, 4, 8, 16, 32, 60 in that order; the
\* next delay depends only on the number of such responses, whatever the
\* number of rate-limit responses between them, and never exceeds 60.
C24_BackoffSchedule ==
    /\ nFail <= Len(BackoffSchedule)
    /\ sleeps = SubSeq(BackoffSchedule, 1, nFail)
    /\ backoff = IF nFail < Len(BackoffSchedule) THEN BackoffSchedule[nFail + 1] ELSE 60
    /\ backoff <= 60

\* C24: one call has slept all six delays
C24_Witness ==
    /\ reqPc = "raised"
    /\ Len(sleeps) = 6
    /\ sleeps[6] = 60

(***************************************************************************)
(* The pages of paginated_get                                              *)
(***************************************************************************)

\* the entries of the page log that belong to one listing: the issues, or
\* the comments of one issue
PagesOf(url, number) ==
    SelectSeq(pageLog, LAMBDA e : e.url = url /\ e.number = number)

\* the pages of one listing are 1, 2, 3, ... and only the last can be empty
InPageOrder(entries) ==
    /\ \A k \in 1..Len(entries) : entries[k].page = k
    /\ \A k \in 1..(Len(entries) - 1) : entries[k].size > 0

\* the number of non-empty pages of a listing of n items
NonEmptyPages(n) == (n + PerPage - 1) \div PerPage

\* the upstream issues that are not pull requests
UpstreamIssues == SelectSeq(upstream, LAMBDA item : ~item.pull_request)

\* C25: paginated_get requests the pages 1, 2, 3, ... of a listing in this
\* order without gaps or repeats, yields the items of the non-empty pages in
\* page order and in-page order, and stops at the first empty page: a
\* listing of n non-empty pages takes exactly n + 1 successful page
\* requests, the last one for the empty page.
C25_PagesInOrder ==
    /\ InPageOrder(PagesOf("issues", 0))
    /\ \A number \in 1..4 : InPageOrder(PagesOf("comments", number))
    /\ pc = "fetch" /\ reqUrl = "issues"
         => issuesPage = Len(PagesOf("issues", 0)) + 1
    /\ pc = "fetch" /\ reqUrl = "comments"
         => commentsPage = Len(PagesOf("comments", curDetail.number)) + 1
    /\ pc \in {"scan", "done"} /\ ~cached.hit /\ failure = "none"
         => /\ Len(PagesOf("issues", 0)) = NonEmptyPages(Len(upstream)) + 1
            /\ pageLog[Len(pageLog)].size = 0
            /\ fetched_records = [k \in 1..Len(UpstreamIssues) |->
                    [issue |-> UpstreamIssues[k],
                     comments |-> IF UpstreamIssues[k].comments > 0
                                  THEN Thread(UpstreamIssues[k].number) ELSE <<>>]]
            /\ \A k \in 1..Len(UpstreamIssues) :
                 UpstreamIssues[k].comments > 0 =>
                    Len(PagesOf("comments", UpstreamIssues[k].number))
                        = NonEmptyPages(Len(Thread(UpstreamIssues[k].number))) + 1

\* C25: the fetch of a listing of two pages whose first issue has a comment
\* listing of two pages has ended
C25_Witness ==
    /\ pc = "done"
    /\ failure = "none"
    /\ upstream = LongListing
    /\ Len(PagesOf("issues", 0)) = 3
    /\ Len(PagesOf("comments", 2)) = 3

(***************************************************************************)
(* The cache file during and after a fetch                                 *)
(***************************************************************************)

\* every listing of the fetch has been received up to its empty page
FetchComplete ==
    /\ Len(PagesOf("issues", 0)) = NonEmptyPages(Len(upstream)) + 1
    /\ \A k \in 1..Len(UpstreamIssues) :
         UpstreamIssues[k].comments > 0 =>
            Len(PagesOf("comments", UpstreamIssues[k].number))
                = NonEmptyPages(Len(Thread(UpstreamIssues[k].number))) + 1

\* C26: the cache file is written only after every issue page and every
\* comment page of the repository was fetched; while the fetch runs, and
\* after a request of the fetch has failed for good, the cache file is as
\* the run found it, save_repo_cache was not called and the task has no row.
C26_CacheWrittenAfterFetch ==
    /\ pc = "fetch" \/ failure # "none"
         => /\ cacheFile = cacheAtStart
            /\ saved = "no"
            /\ out = <<>>
            /\ ~cached.hit
    /\ failure # "none" => pc = "done"
    /\ saved # "no" => FetchComplete
    /\ saved = "ok" => cacheFile = FileOf(FileText(fetched_records))

\* C26: a request has exhausted its attempts after two records were
\* fetched, and there is no cache file
C26_Witness ==
    /\ failure = "transport"
    /\ Len(fetched_records) = 2
    /\ cacheFile = AbsentFile
    /\ out = <<>>

(***************************************************************************)
(* Loading a damaged cache file (SpecRoundTrip)                            *)
(***************************************************************************)

\* the records of the lines of the damaged file that can still be parsed,
\* told from the records that were written and the damage done
SurvivingRecords ==
    CASE rtSaved = "first_line_cut" -> Tail(rtRecords)
      [] rtSaved = "last_line_cut" -> SubSeq(rtRecords, 1, Len(rtRecords) - 1)
      [] rtSaved = "number_line_added" ->
            <<rtRecords[1], [scalar |-> 7]>> \o Tail(rtRecords)
      [] rtSaved = "undecodable_bytes_added" -> <<>>
      [] OTHER -> rtRecords

\* C27: load_repo_cache on a file with unparseable lines returns the values
\* of the parseable lines in file order; it returns none for a file that
\* is absent, empty, unreadable or without a parseable line, and
\* process_repo then takes the cache-miss branch.
C27_LoadSkipsBadLines ==
    /\ rtSaved \in Damages /\ rtLoaded # NotLoaded
         => /\ IF Len(SurvivingRecords) = 0
               THEN rtLoaded = CacheMiss
               ELSE rtLoaded.hit /\ rtLoaded.records = SurvivingRecords
            /\ CacheUsable(rtLoaded) <=> Len(SurvivingRecords) > 0
    /\ rtSaved = "io_error" /\ rtLoaded # NotLoaded
         => /\ rtLoaded = load_repo_cache(rtFile)
            /\ ~rtFile.exists => rtLoaded = CacheMiss /\ ~CacheUsable(rtLoaded)

\* C27: a file of two lines whose first line was cut has been loaded, and
\* the load returned the record of the second line
C27_Witness ==
    /\ rtSaved = "first_line_cut"
    /\ Len(rtRecords) = 2
    /\ rtLoaded # NotLoaded
    /\ rtLoaded.hit
    /\ rtLoaded.records = <<rtRecords[2]>>

(***************************************************************************)
(* A failed write of the cache file                                        *)
(***************************************************************************)

\* C28: a failure to write the cache file is swallowed: after a complete
\* fetch the task scans the fetched records and returns their rows, the
\* same rows whether the write succeeded or failed.
C28_WriteFailureSwallowed ==
    /\ failure # "save"
    /\ saved \in {"ok", "io_error"} /\ pc = "scan"
         => records = fetched_records /\ failure = "none"
    /\ saved \in {"ok", "io_error"} /\ pc = "done"
         => /\ failure = "none"
            /\ records = fetched_records
            /\ out = ScanRows(fetched_records)

\* C28: the write failed after the fetch of a listing and the task has
\* returned a row
C28_Witness ==
    /\ pc = "done"
    /\ saved = "io_error"
    /\ cacheFile = AbsentFile
    /\ Len(out) > 0

(***************************************************************************)
(* The request counters under the worker threads of main                   *)
(***************************************************************************)

\* the worker threads of the pool that run a task at the same time
MaxThreads == 2

Workers == 1..MaxThreads

\* the most HTTP attempts one task makes
MaxTaskRequests == 3

CountInit ==
    /\ ScanIdle
    /\ RtIdle
    /\ TaskIdle
    /\ upstream = <<>>
    /\ cacheFile = AbsentFile
    /\ faultsLeft = 0
    /\ ValIdle
    /\ VerdictIdle
    /\ MainIdle
    /\ MatchIdle
    /\ threads \in [Workers -> [pc : {"loop"}, loaded : {0}, request_counter : {0},
                                left : 1..MaxTaskRequests]]

\* the start of an iteration of the loop of line 404 in thread w: the
\* task's own counter is incremented (lines 405-406), and the statement
\* GLOBAL_REQUEST_COUNTER[0] += 1 (line 408) reads the shared counter; no
\* lock is held, so other threads run before the value is written back
LoadGlobal(w) ==
    /\ threads[w].pc = "loop"
    /\ threads' = [threads EXCEPT ![w].pc = "loaded",
                                  ![w].loaded = GLOBAL_REQUEST_COUNTER,
                                  ![w].request_counter = @ + 1]
    /\ UNCHANGED <<GLOBAL_REQUEST_COUNTER, request_counter, reqUrl, issuesPage, pending,
                   curDetail, commentsPage, comments_json, fetched_records, pageLog,
                   scanVars, rtVars, taskVars, reqVars, valVars, verdictVars, mainVars,
                   matchVars>>

\* the second half of line 408 in thread w: the value read plus one is
\* written to the shared counter; then the HTTP attempt is made (line 412)
\* and the task goes on to its next attempt, or returns (line 776)
StoreGlobal(w) ==
    /\ threads[w].pc = "loaded"
    /\ GLOBAL_REQUEST_COUNTER' = threads[w].loaded + 1
    /\ threads' = [threads EXCEPT ![w].pc = IF threads[w].left = 1 THEN "returned"
                                            ELSE "loop",
                                  ![w].left = @ - 1]
    /\ UNCHANGED <<request_counter, reqUrl, issuesPage, pending,
                   curDetail, commentsPage, comments_json, fetched_records, pageLog,
                   scanVars, rtVars, taskVars, reqVars, valVars, verdictVars, mainVars,
                   matchVars>>

CountNext == \E w \in Workers : LoadGlobal(w) \/ StoreGlobal(w)

SpecCounters == CountInit /\ [][CountNext]_vars

\* the sum of the request counts the tasks of threads 1..n return
RECURSIVE SumOfTasks(_)
SumOfTasks(n) ==
    IF n = 0 THEN 0 ELSE threads[n].request_counter + SumOfTasks(n - 1)

\* C29: every HTTP attempt adds one to the task's counter and one to the
\* process-wide counter, so that in every interleaving of the worker
\* threads the process-wide total read after all tasks have joined is the
\* sum of the per-repository counts, and the process-wide counter never
\* decreases.
C29_GlobalCounterExact ==
    /\ []((\A w \in Workers : threads[w].pc = "returned")
            => GLOBAL_REQUEST_COUNTER = SumOfTasks(MaxThreads))
    /\ [][GLOBAL_REQUEST_COUNTER' >= GLOBAL_REQUEST_COUNTER]_vars

(***************************************************************************)
(* The early return of the scan (SpecScan)                                 *)
(***************************************************************************)

\* C30: when the title and the body alone pass both gates, the finding the
\* scan returns has the source tag and the keyword summary it has for the
\* same issue without any comment, whatever the comments of the issue are,
\* and its source tag has no "comment" part.
C30_Phase1IgnoresComments ==
    (scanEnriched # NotScanned /\ Phase1Passes(scanDetail))
        => /\ scanEnriched.kind = "finding"
           /\ scanEnriched.source = sentence_level_artifact_scan(scanDetail, <<>>).source
           /\ scanEnriched.keyword = sentence_level_artifact_scan(scanDetail, <<>>).keyword
           /\ scanEnriched.source \notin TagsWithComment

\* C30: a finding of title and body for an issue whose comments hold
\* keywords of a bucket that title and body do not have
C30_Witness ==
    /\ scanEnriched # NotScanned
    /\ Phase1Passes(scanDetail)
    /\ Len(scanComments) = 2
    /\ "TEST_CI" \in DOMAIN match_concepts(scanComments[1])
    /\ sentence_level_cooccurrence(scanComments[2])

(***************************************************************************)
(* The form of the verdicts (SpecVerdict)                                  *)
(***************************************************************************)

\* the number of whitespace-separated words of a text: the positions at
\* which a word starts
WordCount(text) ==
    Cardinality({i \in 1..Len(text) :
                    /\ text[i] \notin {" ", "\n"}
                    /\ i = 1 \/ text[i - 1] \in {" ", "\n"}})

\* the decimal strings of the integers 0..100
Percentages ==
    {<<d>> : d \in {"0", "1", "2", "3", "4", "5", "6", "7", "8", "9"}}
    \cup {<<d, e>> : d \in {"1", "2", "3", "4", "5", "6", "7", "8", "9"},
                     e \in {"0", "1", "2", "3", "4", "5", "6", "7", "8", "9"}}
    \cup {<<"1", "0", "0">>}

\* C31: every verdict call_openai_analyze returns is well formed: a summary
\* of at most 10 words, flags that are "Yes" or "No", and a confidence that
\* is the decimal string of an integer of 0..100; a confidence above 100
\* gives "100", a value that is not a digit string gives "0".
C31_VerdictWellFormed ==
    (vdResult # NotCalled /\ ~vdResult.raised) =>
        /\ WordCount(vdResult.fields.ai_issue_summary) <= 10
        /\ vdResult.fields.ai_is_os_portability \in {<<"Y", "e", "s">>, <<"N", "o">>}
        /\ vdResult.fields.ai_is_fix_merged \in {<<"Y", "e", "s">>, <<"N", "o">>}
        /\ vdResult.fields.ai_confidence_pct \in Percentages
        /\ vdReply.content.json = "object" =>
             LET c == vdReply.content.members.ai_confidence_pct
             IN /\ c = Member(T_150) => vdResult.fields.ai_confidence_pct = <<"1", "0", "0">>
                /\ c = Member(T_85) => vdResult.fields.ai_confidence_pct = <<"8", "5">>
                /\ c \in {Member(T_minus5), Member(T_fix_aix), Member(T_empty), AbsentMember}
                     => vdResult.fields.ai_confidence_pct = <<"0">>

\* C31: a verdict was returned for an output with a summary of eleven
\* words and a confidence of 150
C31_Witness ==
    /\ vdResult # NotCalled
    /\ ~vdResult.raised
    /\ vdReply.content.json = "object"
    /\ vdReply.content.members.ai_issue_summary = Member(T_eleven_words)
    /\ vdReply.content.members.ai_confidence_pct = Member(T_150)
    /\ WordCount(vdResult.fields.ai_issue_summary) = 10

(***************************************************************************)
(* The fields of the rows (SpecValidate)                                   *)
(***************************************************************************)

\* the names of the four validation fields
AiFieldNames ==
    {"ai_issue_summary", "ai_is_os_portability", "ai_is_fix_merged", "ai_confidence_pct"}

\* C32: every row of the output has non-empty values in repository, type,
\* source, keyword, link, status and number, and holds the four validation
\* fields, which are empty when validation was not run.
C32_MandatoryFieldsPopulated ==
    \A i \in 1..Len(valOut) :
        /\ valOut[i].repository # ""
        /\ valOut[i].type # ""
        /\ valOut[i].status # ""
        /\ valOut[i].source \notin {<<>>, NoneText}
        /\ valOut[i].keyword \notin {<<>>, NoneText}
        /\ valOut[i].link \notin {<<>>, NoneText}
        /\ valOut[i].number # NoneNumber
        /\ DOMAIN valOut[i].ai = AiFieldNames
        /\ ~ai_token => valOut[i].ai = NoAiFields

(***************************************************************************)
(* The run after a complete fetch (Spec)                                   *)
(***************************************************************************)

\* C33: once a run has fetched the repository completely and written its
\* cache without error, the next run of process_repo takes the cache and
\* makes no upstream request, whatever the listing of the first run held
\* (no issue, or pull requests only).
C33_RerunMakesNoRequest ==
    [][(pc = "done" /\ saved = "ok" /\ pc' # "done")
          => (pc' = "scan" /\ reqPc' = "none" /\ request_counter' = 0)]_vars

(***************************************************************************)
(* The two gates on one text (SpecMatch)                                   *)
(***************************************************************************)

\* C34: the sentence-level gate is stricter than the whole-text gate: a
\* text that passes sentence_level_cooccurrence has an OS hit and a FIX hit
\* in match_concepts of the whole text, also when its "nt" is delimited by
\* a fragment boundary only.
C34_SentenceGateStricter ==
    (mHits # NotMatched /\ mCooccurs) => has_os_and_fix(mHits)

(***************************************************************************)
(* The validation counters of a task (SpecValidate)                        *)
(***************************************************************************)

C36_StagedComments ==
    (scanEnriched # NotScanned /\ scanEnriched.kind = "finding") =>
        /\ Phase1Passes(scanDetail)
              => scanEnriched.enrichment_input.comments = <<>>
        /\ ~Phase1Passes(scanDetail)
              => /\ Len(scanEnriched.enrichment_input.comments) = Len(scanComments)
                 /\ \A k \in 1..Len(scanComments) :
                       scanEnriched.enrichment_input.comments[k] = scanComments[k]

\* C36: a finding of Phase 2 for an issue with two different comments, the
\* first of which holds no keyword
C36_Witness ==
    /\ scanEnriched # NotScanned
    /\ scanEnriched.kind = "finding"
    /\ ~Phase1Passes(scanDetail)
    /\ Len(scanComments) = 2
    /\ DOMAIN match_concepts(scanComments[1]) = {}
    /\ scanComments[1] # scanComments[2]
    /\ scanEnriched.enrichment_input.comments = scanComments

====
